---- MODULE Spec2Model ----
(***************************************************************************)
(* Fault-diagnosis reasoning engine of kgqa_framework: the knowledge-graph *)
(* reasoning chain, the TF-IDF case matcher, the solution recommender and  *)
(* the analyzer that chains them.                                          *)
(*                                                                         *)
(* Numbers.  Confidences and similarities are Python floats in [0,1].      *)
(* They are modelled in fixed point: One (= 100) stands for 1.0, so 0.8 is *)
(* 80 and 0.8 * 0.8 is 64.  Averages and weighted sums are kept as exact   *)
(* fractions [num, den] and compared by cross-multiplication.              *)
(*                                                                         *)
(* Text.  A string is a sequence of words; "kw in text" is membership of   *)
(* the word in the sequence.  Chinese keywords are written in English.     *)
(***************************************************************************)
EXTENDS Integers, Sequences, FiniteSets, TLC

VARIABLES
    cases,         \* SimilarityMatcher.cases
    vectorizer,    \* SimilarityMatcher.vectorizer
    case_vectors,  \* SimilarityMatcher.case_vectors
    enable_web_search,  \* SolutionRecommender.enable_web_search
    enable_entity_recognition,  \* TextProcessor.enable_entity_recognition
    service_available,  \* EntityRecognizer.service_available
    op,            \* name of the operation that completed last
    args,          \* its arguments
    ret,           \* its return value
    locals         \* values of its local variables at return

vars == <<cases, vectorizer, case_vectors, enable_web_search,
          enable_entity_recognition, service_available, op, args, ret, locals>>

matcher == <<cases, vectorizer, case_vectors>>

None == "None"

\* a text-valued argument that is None
NoneText == <<None>>

Raised == "Raised"

(***************************************************************************)
(* Generic helpers                                                         *)
(***************************************************************************)
One == 100

Range(s) == {s[i] : i \in 1..Len(s)}

Has(text, kw) == \E i \in 1..Len(text) : text[i] = kw

Take(s, n) == IF n >= Len(s) THEN s ELSE SubSeq(s, 1, n)

RECURSIVE Concat(_)
Concat(ss) == IF ss = <<>> THEN <<>> ELSE Head(ss) \o Concat(Tail(ss))

RECURSIVE SumSeq(_)
SumSeq(s) == IF s = <<>> THEN 0 ELSE Head(s) + SumSeq(Tail(s))

Map(f(_), s) == [i \in 1..Len(s) |-> f(s[i])]

SeqsUpTo(S, n) == UNION {[1..k -> S] : k \in 0..n}

\* list(dict.fromkeys(s)): duplicates removed, first occurrence kept
RECURSIVE Dedup(_)
Dedup(s) ==
    IF s = <<>> THEN <<>>
    ELSE LET init == Dedup(SubSeq(s, 1, Len(s) - 1))
             last == s[Len(s)]
         IN IF last \in Range(init) THEN init ELSE Append(init, last)

RECURSIVE Gcd(_, _)
Gcd(a, b) == IF b = 0 THEN a ELSE Gcd(b, a % b)

\* exact fractions, in lowest terms
Frac(n, d) == [num |-> n \div Gcd(n, d), den |-> d \div Gcd(n, d)]

FracAdd(a, b) == Frac(a.num * b.den + b.num * a.den, a.den * b.den)

FracEq(a, b) == a.num * b.den = b.num * a.den

FracLt(a, b) == a.num * b.den < b.num * a.den

FracLe(a, b) == a.num * b.den <= b.num * a.den

RECURSIVE FracSum(_)
FracSum(s) == IF s = <<>> THEN Frac(0, 1) ELSE FracAdd(Head(s), FracSum(Tail(s)))

\* sorted(items, key=score, reverse=True): stable, descending; score is a
\* function from the items to their keys
RECURSIVE InsertDesc(_, _, _)
InsertDesc(x, s, score) ==
    IF s = <<>> THEN <<x>>
    ELSE IF score[Head(s)] >= score[x]
         THEN <<Head(s)>> \o InsertDesc(x, Tail(s), score)
         ELSE <<x>> \o s

RECURSIVE SortedDesc(_, _)
SortedDesc(s, score) ==
    IF s = <<>> THEN <<>>
    ELSE LET n == Len(s)
         IN InsertDesc(s[n], SortedDesc(SubSeq(s, 1, n - 1), score), score)

(***************************************************************************)
(* SolutionRecommender: tables                                             *)
(***************************************************************************)
\* substrings of each cause text that the recommender looks for
CauseWords ==
    [c \in {"motor_fault", "spindle_motor_fault", "hydraulic_system_fault",
            "bearing_wear", "poor_lubrication", "temperature_abnormal",
            "parameter_error", "tool_chain_jam", "cnc_system_fault",
            "mechanical_fault"} |->
        CASE c = "motor_fault" -> {"motor", "motor_fault"}
          [] c = "spindle_motor_fault" -> {"motor", "motor_fault"}
          [] c = "hydraulic_system_fault" -> {"hydraulic", "hydraulic_system_fault"}
          [] c = "bearing_wear" -> {"bearing"}
          [] c = "cnc_system_fault" -> {"cnc_system_fault"}
          [] c = "mechanical_fault" -> {"mechanical_fault"}
          [] OTHER -> {}]

CauseHas(cause, kw) == cause \in DOMAIN CauseWords /\ kw \in CauseWords[cause]

solution_database ==
    << [category |-> "motor_fault",
        solutions |-> <<"motor_power", "motor_bearing", "motor_coil", "motor_replace">>],
       [category |-> "hydraulic_system_fault",
        solutions |-> <<"hyd_oil", "hyd_pump", "hyd_pipe", "hyd_filter">>],
       [category |-> "cnc_system_fault",
        solutions |-> <<"cnc_restart", "cnc_params", "cnc_update", "cnc_hardware">>],
       [category |-> "mechanical_fault",
        solutions |-> <<"mech_drive", "mech_gap", "mech_lubricate", "mech_replace">>] >>

alarm_solutions(code) ==
    CASE code = "ALM401" -> <<"alm401_pressure", "alm401_chain", "alm401_position", "alm401_motor">>
      [] code = "ALM402" -> <<"alm402_orient", "alm402_encoder", "alm402_params">>
      [] OTHER -> <<>>

mock_results == {"web_power", "web_driver", "web_vendor_docs", "web_environment"}

MaxWebResults == 3

\* random.sample(mock_results, random.randint(1, 3)): an ordered selection
\* of 1 to 3 distinct entries
mock_web_search ==
    {s \in SeqsUpTo(mock_results, MaxWebResults) :
        /\ Len(s) >= 1
        /\ \A i, j \in 1..Len(s) : i # j => s[i] # s[j]}

(***************************************************************************)
(* SolutionRecommender: operations                                         *)
(***************************************************************************)
\* keyword -> cause table, in the order of the if-statements
infer_table ==
    << <<"motor", "motor_fault">>,
       <<"hydraulic", "hydraulic_system_fault">>,
       <<"bearing", "bearing_wear">>,
       <<"lubrication", "poor_lubrication">>,
       <<"temperature", "temperature_abnormal">>,
       <<"parameter", "parameter_error">> >>

RECURSIVE infer_from(_, _)
infer_from(solution, table) ==
    IF table = <<>> THEN <<>>
    ELSE (IF Has(solution, Head(table)[1]) THEN <<Head(table)[2]>> ELSE <<>>)
         \o infer_from(solution, Tail(table))

infer_causes_from_solution(solution) == infer_from(solution, infer_table)

\* the weight of a similar case without the factor 0.5
case_weight_full(case) == 2 * case.similarity

\* weight of a similar case: similarity * 0.5.  Scores are kept in halves
\* of a confidence unit (a graph confidence c counts 2c, a case weight
\* similarity * 0.5 counts similarity).
case_weight(case) == case.similarity

graph_weight(cause_info) == 2 * cause_info.confidence

\* the (cause, added amount) pairs in the order the two loops add them
contributions(kg_result, similar_cases) ==
    [i \in 1..Len(kg_result.causes) |->
        <<kg_result.causes[i].cause, graph_weight(kg_result.causes[i])>>]
    \o Concat([i \in 1..Len(similar_cases) |->
        LET inferred == infer_causes_from_solution(similar_cases[i].solution)
        IN [j \in 1..Len(inferred) |-> <<inferred[j], case_weight(similar_cases[i])>>]])

\* the defaultdict cause_scores after the two loops: keys in insertion
\* order, and the accumulated score of each key
cause_keys(kg_result, similar_cases) ==
    LET cs == contributions(kg_result, similar_cases)
    IN Dedup([i \in 1..Len(cs) |-> cs[i][1]])

cause_scores(kg_result, similar_cases) ==
    LET cs == contributions(kg_result, similar_cases)
    IN [c \in {cs[i][1] : i \in 1..Len(cs)} |->
          SumSeq([i \in 1..Len(cs) |-> IF cs[i][1] = c THEN cs[i][2] ELSE 0])]

MaxCauses == 5

\* the ranking without the sort: the first causes in insertion order
sort_causes_unsorted(keys, scores) == Take(keys, MaxCauses)

sort_causes(keys, scores) == Take(SortedDesc(keys, scores), MaxCauses)

integrate_causes(kg_result, similar_cases) ==
    sort_causes(cause_keys(kg_result, similar_cases),
                cause_scores(kg_result, similar_cases))

get_solutions_by_cause(cause) ==
    Concat([i \in 1..Len(solution_database) |->
        IF CauseHas(cause, solution_database[i].category)
        THEN solution_database[i].solutions ELSE <<>>])

\* substrings of brand.lower() that the recommender looks for
BrandWords(brand) ==
    CASE brand = "FANUC 0i" -> {"fanuc"}
      [] brand = "Siemens 840D" -> {"siemens"}
      [] OTHER -> {}

get_solutions_by_equipment(equipment_info) ==
    IF equipment_info.brand = None THEN <<>>
    ELSE IF "fanuc" \in BrandWords(equipment_info.brand)
         THEN <<"fanuc_params", "fanuc_alarm_history", "fanuc_reset">>
         ELSE IF "siemens" \in BrandWords(equipment_info.brand)
              THEN <<"siemens_diagnosis", "siemens_selftest">>
              ELSE <<>>

get_solutions_by_elements(fault_elements) ==
    Concat([i \in 1..Len(fault_elements) |->
        LET content == fault_elements[i].content
        IN (IF Has(content, "temperature") \/ Has(content, "overheat")
            THEN <<"check_cooling", "clean_heat_channel", "check_temp_sensor">>
            ELSE <<>>)
           \o (IF Has(content, "vibration") \/ Has(content, "noise")
               THEN <<"check_fastening", "check_bearing", "adjust_balance">>
               ELSE <<>>)
           \o (IF Has(content, "stop") \/ Has(content, "not_running")
               THEN <<"check_power", "check_control_signal", "restart_device">>
               ELSE <<>>)])

MaxSolutions == 10

\* the solution list without the cap
limit_solutions_uncapped(unique_solutions) == unique_solutions

limit_solutions(unique_solutions) == Take(unique_solutions, MaxSolutions)

generate_solutions(causes, user_query, fault_elements) ==
    LET by_cause == Concat([i \in 1..Len(causes) |-> get_solutions_by_cause(causes[i])])
        by_equipment == get_solutions_by_equipment(user_query.equipment_info)
        by_alarm == IF user_query.equipment_info.error_code # None
                    THEN alarm_solutions(user_query.equipment_info.error_code)
                    ELSE <<>>
        by_elements == get_solutions_by_elements(fault_elements)
    IN limit_solutions(Dedup(by_cause \o by_equipment \o by_alarm \o by_elements))

\* a sum in place of the average: the division by the length is missing
average_undivided(values) == Frac(SumSeq(values), One)

\* average of a list of fixed-point values, as a fraction of 1.0
average(values) == Frac(SumSeq(values), Len(values) * One)

weighted(avg, tenths) == Frac(avg.num * tenths, avg.den * 10)

combine(confidence_factors) ==
    LET total == FracSum(confidence_factors)
    IN Frac(total.num, total.den * Len(confidence_factors))

\* the confidence without the floor: 0.0 when there is no evidence
calculate_confidence_nofloor(kg_result, similar_cases) ==
    LET gs == [i \in 1..Len(kg_result.causes) |-> kg_result.causes[i].confidence]
        ss == [i \in 1..Len(similar_cases) |-> similar_cases[i].similarity]
        fs == (IF gs # <<>> THEN <<weighted(average(gs), 6)>> ELSE <<>>)
              \o (IF ss # <<>> THEN <<weighted(average(ss), 4)>> ELSE <<>>)
    IN IF fs # <<>> THEN combine(fs) ELSE Frac(0, 1)

calculate_confidence(kg_result, similar_cases) ==
    LET kg_causes == kg_result.causes
        kg_factor == IF kg_causes # <<>>
                     THEN <<weighted(average([i \in 1..Len(kg_causes) |->
                                                  kg_causes[i].confidence]), 6)>>
                     ELSE <<>>
        case_factor == IF similar_cases # <<>>
                       THEN <<weighted(average([i \in 1..Len(similar_cases) |->
                                                    similar_cases[i].similarity]), 4)>>
                       ELSE <<>>
        confidence_factors == kg_factor \o case_factor
    IN IF confidence_factors # <<>> THEN combine(confidence_factors)
       ELSE Frac(1, 10)

generate_reasoning_path(kg_result, similar_cases) ==
    <<[step |-> "kg_reasoning", results |-> kg_result.causes]>>
    \o (IF similar_cases # <<>>
        THEN <<[step |-> "case_matching", results |-> Take(similar_cases, 3)]>>
        ELSE <<>>)

\* list(set(recommendations)): a set, the order is not determined
generate_check_recommendations(causes) ==
    LET top == Range(Take(causes, 3))
    IN {"check_motor_state" : c \in {c \in top : CauseHas(c, "motor")}}
       \cup {"check_hydraulic_pressure" :
                c \in {c \in top : ~CauseHas(c, "motor") /\ CauseHas(c, "hydraulic")}}
       \cup {"check_bearing_lubrication" :
                c \in {c \in top : /\ ~CauseHas(c, "motor")
                                    /\ ~CauseHas(c, "hydraulic")
                                    /\ CauseHas(c, "bearing")}}
       \cup {"record_operation_steps", "check_maintenance_records", "contact_manufacturer"}

\* _search_online_solutions: the slice of fault_description raises when the
\* description is None; the exception is swallowed and nothing is added
search_online_solutions(user_query, web) ==
    IF user_query.fault_description = NoneText THEN <<>> ELSE web

WebThreshold == Frac(7, 10)

needs_web_search(enabled, confidence) ==
    enabled /\ FracLt(confidence, WebThreshold)

\* the result of the handler with every list empty but the causes
RecommenderErrorBare ==
    [causes |-> <<"analysis_failed">>, solutions |-> <<>>,
     confidence |-> Frac(0, 1), reasoning_path |-> <<>>,
     similar_cases |-> <<>>, recommendations |-> {}]

\* the DiagnosisResult of the except branch of generate_recommendations
RecommenderError ==
    [causes |-> <<"analysis_failed">>, solutions |-> <<"contact_support">>,
     confidence |-> Frac(0, 1), reasoning_path |-> <<>>,
     similar_cases |-> <<>>, recommendations |-> {}]

\* a brand that is not a string: brand.lower() raises inside the try
NotAString == "<int>"

recommender_raises(user_query) == user_query.equipment_info.brand = NotAString

generate_recommendations(kg_result, similar_cases, user_query, fault_elements,
                         enabled, web) ==
    IF recommender_raises(user_query) THEN RecommenderError
    ELSE
    LET causes == integrate_causes(kg_result, similar_cases)
        solutions == generate_solutions(causes, user_query, fault_elements)
        confidence == calculate_confidence(kg_result, similar_cases)
        web_solutions == IF needs_web_search(enabled, confidence)
                         THEN search_online_solutions(user_query, web)
                         ELSE <<>>
    IN [causes |-> causes,
        solutions |-> solutions \o web_solutions,
        confidence |-> confidence,
        reasoning_path |-> generate_reasoning_path(kg_result, similar_cases),
        similar_cases |-> similar_cases,
        recommendations |-> generate_check_recommendations(causes)]

(***************************************************************************)
(* KnowledgeGraphEngine.  The graph store holds one fixed graph; a query   *)
(* of the store either answers or fails (the set failing names the queries *)
(* that fail during one reasoning chain).                                  *)
(***************************************************************************)
\* (p:Xianxiang)-[:XY]->(y:Yuanyin), in the order the store returns them
XY == << <<"tool_stuck", "tool_chain_jam">>,
         <<"tool_stuck", "motor_fault">>,
         <<"alarm", "motor_fault">>,
         <<"alarm", "hydraulic_system_fault">>,
         <<"vibration", "bearing_wear">> >>

\* (p:Xianxiang)-[:XX]->(x:Xianxiang)
XX == << <<"tool_stuck", "alarm">>, <<"vibration", "noise">> >>

\* (c:Caozuo)-[:CX]->(x:Xianxiang); the operation title is a word sequence
CX == << << <<"auto", "tool_change">>, "tool_stuck" >>,
         << <<"start", "spindle">>, "vibration" >> >>

\* (b:GuzhangBuwei)-[:XB]-(x:Xianxiang)
XB == << << <<"tool_magazine">>, "tool_stuck" >>,
         << <<"spindle", "bearing">>, "vibration" >> >>

\* (e:Errorid)-[:XJ]-(x:Xianxiang)
XJ == << << <<"ALM401">>, "alarm" >> >>

\* title CONTAINS $content: content is a contiguous part of the title
Contains(title, content) ==
    \E i \in 1..(Len(title) - Len(content) + 1) :
        SubSeq(title, i, i + Len(content) - 1) = content

StoreDirectConfidence == One

StoreRelatedConfidence == 80

\* rows of the UNION query for one phenomenon; the title is matched exactly,
\* so only a one-word text finds a node
cause_rows(phenomenon) ==
    LET direct == Concat([i \in 1..Len(XY) |->
                    IF <<XY[i][1]>> = phenomenon
                    THEN <<[cause |-> XY[i][2], confidence |-> StoreDirectConfidence,
                            related_phenomenon |-> phenomenon]>>
                    ELSE <<>>])
        related == Concat([i \in 1..Len(XX) |->
                    IF <<XX[i][1]>> = phenomenon
                    THEN Concat([j \in 1..Len(XY) |->
                            IF XY[j][1] = XX[i][2]
                            THEN <<[cause |-> XY[j][2],
                                    confidence |-> StoreRelatedConfidence,
                                    related_phenomenon |-> phenomenon]>>
                            ELSE <<>>])
                    ELSE <<>>])
    IN Dedup(direct \o related)

\* a loop over the arguments inside one try: a failing query ends the loop
\* and what was collected before it is returned.  rows maps each argument
\* to the rows the store answers.
RECURSIVE lookup_loop(_, _, _, _)
lookup_loop(kind, items, rows, failing) ==
    IF items = <<>> THEN <<>>
    ELSE IF <<kind, Head(items)>> \in failing THEN <<>>
         ELSE rows[Head(items)] \o lookup_loop(kind, Tail(items), rows, failing)

get_fault_causes_by_phenomena(phenomena, failing) ==
    lookup_loop("causes", phenomena,
                [p \in Range(phenomena) |-> cause_rows(p)], failing)

phenomenon_rows(edges, content, confidence) ==
    Concat([i \in 1..Len(edges) |->
        IF Contains(edges[i][1], content)
        THEN <<[phenomenon |-> edges[i][2], confidence |-> confidence,
                related |-> content]>>
        ELSE <<>>])

get_related_phenomena_by_operations(operations, failing) ==
    lookup_loop("operations", operations,
                [o \in Range(operations) |-> phenomenon_rows(CX, o, 90)], failing)

get_location_phenomena(locations, failing) ==
    lookup_loop("locations", locations,
                [l \in Range(locations) |-> phenomenon_rows(XB, l, 80)], failing)

get_alarm_phenomena(alarms, failing) ==
    lookup_loop("alarms", alarms,
                [a \in Range(alarms) |-> phenomenon_rows(XJ, a, 90)], failing)

\* cause["confidence"] *= factor, the factor given in tenths
decay(causes, tenths) ==
    [i \in 1..Len(causes) |->
        [causes[i] EXCEPT !.confidence = (causes[i].confidence * tenths) \div 10]]

OperationDecay == 8

LocationDecay == 7

\* the operation-inferred causes without the decay
decay_indirect_none(causes) == causes

decay_indirect(causes) == decay(causes, OperationDecay)

\* the location-inferred causes without the decay
decay_location_none(causes) == causes

decay_location(causes) == decay(causes, LocationDecay)

contents_of(fault_elements, type) ==
    LET picked == SelectSeq(fault_elements, LAMBDA e : e.element_type = type)
    IN [i \in 1..Len(picked) |-> picked[i].content]

titles_of(phenomena) == [i \in 1..Len(phenomena) |-> <<phenomena[i].phenomenon>>]

\* the queries that one lookup loop sends to the store: one for each
\* argument up to and including the first that fails
RECURSIVE issued(_, _, _)
issued(kind, items, failing) ==
    IF items = <<>> THEN <<>>
    ELSE <<<<kind, Head(items)>>>>
         \o (IF <<kind, Head(items)>> \in failing THEN <<>>
             ELSE issued(kind, Tail(items), failing))

\* the local variables of execute_reasoning_chain when it returns; a
\* phenomenon title is looked up by exact match, so a lookup argument is the
\* one-word text of the title
chain_locals(fault_elements, failing) ==
    LET operations == contents_of(fault_elements, "operation")
        phenomena == contents_of(fault_elements, "phenomenon")
        locations == contents_of(fault_elements, "location")
        alarms == contents_of(fault_elements, "alarm")
        direct_causes == IF phenomena # <<>>
                         THEN get_fault_causes_by_phenomena(phenomena, failing)
                         ELSE <<>>
        operation_phenomena == IF operations # <<>>
                               THEN get_related_phenomena_by_operations(operations, failing)
                               ELSE <<>>
        store_indirect == get_fault_causes_by_phenomena(titles_of(operation_phenomena), failing)
        location_phenomena == IF locations # <<>>
                              THEN get_location_phenomena(locations, failing)
                              ELSE <<>>
        store_location == get_fault_causes_by_phenomena(titles_of(location_phenomena), failing)
        alarm_phenomena == IF alarms # <<>>
                           THEN get_alarm_phenomena(alarms, failing)
                           ELSE <<>>
        alarm_causes == get_fault_causes_by_phenomena(titles_of(alarm_phenomena), failing)
    IN [direct_causes |-> direct_causes,
        operation_phenomena |-> operation_phenomena,
        store_indirect |-> store_indirect,
        indirect_causes |-> decay_indirect(store_indirect),
        location_phenomena |-> location_phenomena,
        store_location |-> store_location,
        location_causes |-> decay_location(store_location),
        alarm_phenomena |-> alarm_phenomena,
        alarm_causes |-> alarm_causes,
        queries |->
            [phenomenon |-> issued("causes", phenomena, failing),
             operation |-> issued("operations", operations, failing)
                           \o issued("causes", titles_of(operation_phenomena), failing),
             location |-> issued("locations", locations, failing)
                          \o issued("causes", titles_of(location_phenomena), failing),
             alarm |-> issued("alarms", alarms, failing)
                       \o issued("causes", titles_of(alarm_phenomena), failing)]]

execute_reasoning_chain(fault_elements, failing) ==
    LET l == chain_locals(fault_elements, failing)
    IN [causes |-> l.direct_causes \o l.indirect_causes
                   \o l.location_causes \o l.alarm_causes,
        related_phenomena |-> l.operation_phenomena \o l.location_phenomena
                              \o l.alarm_phenomena]

(***************************************************************************)
(* TextProcessor.clean_text and the TfidfVectorizer of scikit-learn        *)
(* (max_features=1000, ngram_range=(1,2), min_df=1, max_df=0.95).          *)
(* Weights are kept unnormalised; the cosine divides by both norms, so     *)
(* the L2 normalisation of the rows does not change a similarity.  With    *)
(* the texts below a vocabulary stays far below max_features.              *)
(***************************************************************************)
\* characters outside \w, whitespace, CJK and the kept punctuation
SpecialChars == {"#", "@"}

\* punctuation that clean_text keeps and the tokenizer drops
Punctuation == {",", "."}

\* words of one character, which the token pattern \w\w+ does not match
ShortWords == {"x"}

clean_text(text) == SelectSeq(text, LAMBDA w : w \notin SpecialChars)

Lower(w) == CASE w = "ALM401" -> "alm401"
              [] w = "FANUC 0i" -> "fanuc 0i"
              [] w = "Siemens 840D" -> "siemens 840d"
              [] w = "Spindle" -> "spindle"
              [] OTHER -> w

tokenize(text) ==
    LET kept == SelectSeq(text, LAMBDA w : w \notin Punctuation /\ w \notin ShortWords)
    IN [i \in 1..Len(kept) |-> Lower(kept[i])]

\* unigrams and bigrams of a text, each a sequence of one or two tokens
ngrams(text) ==
    LET t == tokenize(text)
    IN [i \in 1..Len(t) |-> <<t[i]>>]
       \o [i \in 1..(Len(t) - 1) |-> <<t[i], t[i + 1]>>]

term_count(text, f) ==
    LET g == ngrams(text) IN Cardinality({i \in 1..Len(g) : g[i] = f})

\* 100 * ln(k)
Ln100 == <<0, 69, 110, 139, 161, 179, 195, 208, 220, 230, 240, 248>>

\* smoothed idf ln((1 + n) / (1 + df)) + 1, in tenths
idf_of(n, df) == (Ln100[1 + n] - Ln100[1 + df] + 100 + 5) \div 10

MaxDfPercent == 95

document_frequency(texts, f) ==
    Cardinality({i \in 1..Len(texts) : f \in Range(ngrams(texts[i]))})

\* terms that survive the document-frequency limits
limit_features(texts, terms) ==
    {f \in terms : /\ document_frequency(texts, f) >= 1
                   /\ 100 * document_frequency(texts, f) <= MaxDfPercent * Len(texts)}

Unfitted == [state |-> "unfitted", vocabulary |-> {}, idf |-> <<>>]

NoVectorizer == [state |-> "none", vocabulary |-> {}, idf |-> <<>>]

\* TfidfVectorizer.fit: the fitted vectorizer, or Unfitted when fit raises
\* ValueError (empty vocabulary, max_df below min_df, no terms left)
fit(texts) ==
    LET terms == UNION {Range(ngrams(texts[i])) : i \in 1..Len(texts)}
        kept == limit_features(texts, terms)
    IN IF terms = {} \/ MaxDfPercent * Len(texts) < 100 \/ kept = {}
       THEN Unfitted
       ELSE [state |-> "fitted", vocabulary |-> kept,
             idf |-> [f \in kept |-> idf_of(Len(texts), document_frequency(texts, f))]]

\* TfidfVectorizer.transform of one text by a fitted vectorizer
transform_one(vz, text) == [f \in vz.vocabulary |-> term_count(text, f) * vz.idf[f]]

transform(vz, texts) == [i \in 1..Len(texts) |-> transform_one(vz, texts[i])]

Dot(u, v) ==
    LET fs == DOMAIN u \cap DOMAIN v
        RECURSIVE sum(_)
        sum(S) == IF S = {} THEN 0
                  ELSE LET f == CHOOSE f \in S : TRUE
                       IN u[f] * v[f] + sum(S \ {f})
    IN sum(fs)

\* floor(10^digits * n / d) by long division, for 0 <= n <= d
RECURSIVE LongDiv(_, _, _, _)
LongDiv(q, r, d, digits) ==
    IF digits = 0 THEN q
    ELSE LongDiv(10 * q + (10 * r) \div d, (10 * r) % d, d, digits - 1)

Isqrt(x) == CHOOSE k \in 0..One : k * k <= x /\ (k + 1) * (k + 1) > x

\* sklearn cosine_similarity of two rows, rounded down to 1/One; a zero
\* row has similarity 0 with everything
cosine_similarity(u, v) ==
    LET dot == Dot(u, v)
        nn == Dot(u, u) * Dot(v, v)
    IN IF nn = 0 THEN 0
       ELSE Isqrt(LongDiv((dot * dot) \div nn, (dot * dot) % nn, nn, 4))

(***************************************************************************)
(* SimilarityMatcher                                                       *)
(***************************************************************************)
NoVectors == [built |-> FALSE, rows |-> <<>>]

Vectors(rows) == [built |-> TRUE, rows |-> rows]

\* " ".join of the description and the element contents, cleaned
case_text(case) ==
    clean_text(case.description
               \o Concat([i \in 1..Len(case.elements) |-> case.elements[i].content]))

case_texts(cs) == [i \in 1..Len(cs) |-> case_text(cs[i])]

\* _build_vectors: the new (vectorizer, case_vectors)
build_vectors(cs, vz, cv) ==
    IF cs = <<>> THEN <<vz, cv>>
    ELSE IF \E i \in 1..Len(cs) : cs[i].description = NoneText THEN <<vz, cv>>
    ELSE IF vz.state = "none"
         THEN LET fitted == fit(case_texts(cs))
              IN IF fitted.state = "fitted"
                 THEN <<fitted, Vectors(transform(fitted, case_texts(cs)))>>
                 ELSE <<Unfitted, cv>>
         ELSE IF vz.state = "unfitted"
              THEN <<vz, cv>>
              ELSE <<vz, Vectors(transform(vz, case_texts(cs)))>>

optional(value) == IF value = None THEN <<>> ELSE <<value>>

\* the query text parts; joining them raises when a part is not a string
query_raises(query) ==
    \/ query.fault_description = NoneText
    \/ query.equipment_info.brand = NotAString

query_text(query) ==
    clean_text(query.fault_description
               \o Concat(query.related_phenomena)
               \o optional(query.equipment_info.brand)
               \o optional(query.equipment_info.model)
               \o optional(query.equipment_info.error_code))

\* np.argsort(similarities)[::-1]: indices by descending similarity, equal
\* similarities by descending index
RECURSIVE insert_index(_, _, _)
insert_index(n, s, similarities) ==
    IF s = <<>> THEN <<n>>
    ELSE IF similarities[Head(s)] > similarities[n]
         THEN <<Head(s)>> \o insert_index(n, Tail(s), similarities)
         ELSE <<n>> \o s

RECURSIVE argsort_desc(_, _)
argsort_desc(similarities, n) ==
    IF n = 0 THEN <<>>
    ELSE insert_index(n, argsort_desc(similarities, n - 1), similarities)

similarities_of(vz, cv, query) ==
    LET query_vector == transform_one(vz, query_text(query))
    IN [i \in 1..Len(cv.rows) |-> cosine_similarity(query_vector, cv.rows[i])]

\* the selection without the sort: the first top_k cases in corpus order
select_cases_unsorted(similarities, top_k, min_similarity) ==
    SelectSeq(Take([i \in 1..Len(similarities) |-> i], top_k),
              LAMBDA i : similarities[i] >= min_similarity)

\* the loop over similar_indices[:top_k] that keeps the cases at or above
\* min_similarity
select_cases(similarities, top_k, min_similarity) ==
    SelectSeq(Take(argsort_desc(similarities, Len(similarities)), top_k),
              LAMBDA i : similarities[i] >= min_similarity)

Returned(value) == [raised |-> FALSE, value |-> value]

Exception == [raised |-> TRUE, value |-> <<>>]

\* the body of the try block of find_similar_cases
match_cases(cs, vz, cv, query, top_k, min_similarity) ==
    IF query_raises(query) \/ vz.state # "fitted" THEN Exception
    ELSE LET similarities == similarities_of(vz, cv, query)
             picked == select_cases(similarities, top_k, min_similarity)
         IN IF \E k \in 1..Len(picked) : picked[k] > Len(cs) THEN Exception
            ELSE Returned([k \in 1..Len(picked) |->
                     [cs[picked[k]] EXCEPT !.similarity = similarities[picked[k]]]])

index_missing(cs, vz, cv) == cs = <<>> \/ vz.state = "none" \/ ~cv.built

\* the search without the early return and without the handler
find_similar_cases_unhandled(cs, vz, cv, query, top_k, min_similarity) ==
    match_cases(cs, vz, cv, query, top_k, min_similarity)

find_similar_cases(cs, vz, cv, query, top_k, min_similarity) ==
    IF index_missing(cs, vz, cv) THEN Returned(<<>>)
    ELSE LET r == match_cases(cs, vz, cv, query, top_k, min_similarity)
         IN IF r.raised THEN Returned(<<>>) ELSE r

(***************************************************************************)
(* FaultAnalyzer and the diagnosis endpoint                                *)
(***************************************************************************)
AnalyzerTopK == 5

AnalyzerMinSimilarity == 10

AnalyzerError ==
    [causes |-> <<"analysis_error">>, solutions |-> <<"check_input_or_contact_support">>,
     confidence |-> Frac(0, 1), reasoning_path |-> <<>>,
     similar_cases |-> <<>>, recommendations |-> {"describe_fault_again"}]

UserQuery(fault_description, brand, model, error_code, related_phenomena) ==
    [equipment_info |-> [brand |-> brand, model |-> model, error_code |-> error_code],
     fault_description |-> fault_description,
     related_phenomena |-> related_phenomena]

\* the local variables of analyze_fault after step 4; fault_elements is what
\* the extraction of the sentences and related phenomena produced
analyze_locals(cs, vz, cv, user_query, fault_elements, failing) ==
    [fault_elements |-> fault_elements,
     kg_reasoning_result |-> execute_reasoning_chain(fault_elements, failing),
     similar_cases |-> find_similar_cases(cs, vz, cv, user_query,
                                          AnalyzerTopK, AnalyzerMinSimilarity).value]

\* clean_text(None) raises, and the handler of analyze_fault answers
analyzer_raises(user_query) == user_query.fault_description = NoneText

analyze_fault(cs, vz, cv, user_query, fault_elements, failing, enabled, web) ==
    IF analyzer_raises(user_query) THEN AnalyzerError
    ELSE LET l == analyze_locals(cs, vz, cv, user_query, fault_elements, failing)
         IN generate_recommendations(l.kg_reasoning_result, l.similar_cases,
                                     user_query, fault_elements, enabled, web)

\* round(x, 3), in thousandths
round3(x) == (LongDiv(x.num \div x.den, x.num % x.den, x.den, 4) + 5) \div 10

PayloadCauses == 5

PayloadSolutions == 10

PayloadCases == 3

\* the payload cases without the limit of three
payload_cases_all(similar_cases) ==
    [i \in 1..Len(similar_cases) |->
        [similarity |-> round3(Frac(similar_cases[i].similarity, One)),
         description |-> similar_cases[i].description,
         solution |-> similar_cases[i].solution]]

payload_cases(similar_cases) ==
    LET shown == Take(similar_cases, PayloadCases)
    IN [i \in 1..Len(shown) |->
          [similarity |-> round3(Frac(shown[i].similarity, One)),
           description |-> shown[i].description,
           solution |-> shown[i].solution]]

format_response(result) ==
    [code |-> 200,
     data |-> [confidence |-> round3(result.confidence),
               causes |-> Take(result.causes, PayloadCauses),
               solutions |-> Take(result.solutions, PayloadSolutions),
               reasoning_path |-> result.reasoning_path,
               similar_cases |-> payload_cases(result.similar_cases),
               recommendations |-> result.recommendations]]

ErrorResponse(code) ==
    [code |-> code,
     data |-> [confidence |-> 0, causes |-> <<>>, solutions |-> <<>>,
               reasoning_path |-> <<>>, similar_cases |-> <<>>,
               recommendations |-> {}]]

\* the endpoint without the test of the question
kgqa_diagnosis_unchecked(cs, vz, cv, user_query, fault_elements, failing, enabled, web) ==
    format_response(analyze_fault(cs, vz, cv, user_query, fault_elements,
                                  failing, enabled, web))

\* kgqa_diagnosis: the error responses carry no data (the data record is
\* empty here); an empty question is answered 400 before the analyzer runs
kgqa_diagnosis(cs, vz, cv, user_query, fault_elements, failing, enabled, web) ==
    IF user_query.fault_description = <<>> THEN ErrorResponse(400)
    ELSE format_response(analyze_fault(cs, vz, cv, user_query, fault_elements,
                                       failing, enabled, web))

(***************************************************************************)
(* Inputs                                                                  *)
(***************************************************************************)
Element(content, type) ==
    [content |-> content, element_type |-> type, confidence |-> 90, position |-> 0]

E_operation == Element(<<"tool_change">>, "operation")

E_stuck == Element(<<"tool_stuck">>, "phenomenon")

E_vibration == Element(<<"vibration">>, "phenomenon")

E_temperature == Element(<<"temperature", "high">>, "phenomenon")

E_location == Element(<<"tool_magazine">>, "location")

E_alarm == Element(<<"ALM401">>, "alarm")

Case(id, description, elements, solution) ==
    [case_id |-> id, description |-> description, similarity |-> One,
     elements |-> elements, solution |-> solution]

K_bearing == Case("k1", <<"spindle", "vibration">>, <<>>, <<"replace", "bearing">>)

K_noise == Case("k2", <<"spindle", "#", "noise">>, <<E_vibration>>,
                <<"check", "motor", "lubrication">>)

K_alarm == Case("k3", <<"tool_stuck", ",", "alarm">>, <<E_alarm>>,
                <<"check", "hydraulic", "motor">>)

K_short == Case("k4", <<"x", "spindle", "vibration">>, <<>>,
                <<"adjust", "parameter", "temperature">>)

CaseInputs == {K_bearing, K_noise, K_alarm, K_short}

NoEquipment == [brand |-> None, model |-> None, error_code |-> None]

Q_spindle == UserQuery(<<"spindle", "vibration">>, None, None, None, <<>>)

Q_alarm == UserQuery(<<"tool_stuck">>, "FANUC 0i", None, "ALM401", << <<"alarm">> >>)

Q_unknown == UserQuery(<<"unknown", "@">>, None, None, None, <<>>)

Q_none == UserQuery(NoneText, None, None, None, <<>>)

Q_badbrand == UserQuery(<<"spindle", "noise">>, NotAString, None, None, <<>>)

Q_empty == UserQuery(<<>>, None, None, None, <<>>)

MaxCases == 3

MaxBatch == 2

MaxTopK == 2

MinSimilarities == {0, 10, 60}

\* a query whose description is the indexed text of a case, word for word
VerbatimQuery(case) == UserQuery(case_text(case), None, None, None, <<>>)

MatcherQueries ==
    {Q_spindle, Q_alarm, Q_unknown, Q_none} \cup {VerbatimQuery(c) : c \in CaseInputs}

Idle == [op |-> "idle"]

(***************************************************************************)
(* TextProcessor and EntityRecognizer: extraction of fault elements.  A    *)
(* text is a sequence of words; a position is the index of a word,         *)
(* counted from 0 as str.find counts characters.                           *)
(***************************************************************************)
FaultElement(content, type, confidence, position) ==
    [content |-> content, element_type |-> type,
     confidence |-> confidence, position |-> position]

\* the fault types in the order of the pattern dictionaries
FaultTypes == <<"operation", "phenomenon", "location", "alarm">>

\* the keywords of a fault type, in the order of its list
keywords(type) ==
    CASE type = "operation" -> <<"tool_change">>
      [] type = "phenomenon" -> <<"alarm", "noise", "vibration", "tool_stuck">>
      [] type = "location" -> <<"spindle", "tool_magazine", "bearing">>
      [] type = "alarm" -> <<"ALM">>

\* keyword in word: the alarm keyword is the head of an alarm code
word_has(word, keyword) == word = keyword \/ (keyword = "ALM" /\ word = "ALM401")

\* the word is one of the alternatives of the pattern of a fault type
pattern_word(word, type) ==
    IF type = "alarm" THEN word = "ALM401"
    ELSE \E k \in 1..Len(keywords(type)) : word = keywords(type)[k]

\* the index of the first word holding the keyword, 0 when there is none
find(text, keyword) ==
    IF \E i \in 1..Len(text) : word_has(text[i], keyword)
    THEN CHOOSE i \in 1..Len(text) :
             /\ word_has(text[i], keyword)
             /\ \A j \in 1..(i - 1) : ~word_has(text[j], keyword)
    ELSE 0

\* _extract_context: the keyword with the text around it; one word on each
\* side stands for the window of characters
extract_context(text, keyword) ==
    LET pos == find(text, keyword)
    IN IF pos = 0 THEN <<>>
       ELSE SubSeq(text, IF pos > 1 THEN pos - 1 ELSE 1,
                         IF pos < Len(text) THEN pos + 1 ELSE Len(text))

\* the elements of the keyword loop of one fault type
keyword_elements(text, type, confidence) ==
    LET ks == SelectSeq(keywords(type), LAMBDA k : find(text, k) # 0)
    IN [n \in 1..Len(ks) |->
           FaultElement(extract_context(text, ks[n]), type, confidence,
                        find(text, ks[n]) - 1)]

\* re.finditer from a word on: the leftmost match takes the word before the
\* alternative when there is one (the greedy prefix), the alternative and
\* the word after it; the pattern of the alarm codes has no context groups.
\* One word on each side stands for the context groups.
RECURSIVE finditer(_, _, _, _)
finditer(text, type, confidence, from) ==
    LET ahead(s) == s + 1 <= Len(text) /\ pattern_word(text[s + 1], type)
        starts == {s \in from..Len(text) :
                      \/ pattern_word(text[s], type)
                      \/ type # "alarm" /\ ahead(s)}
    IN IF starts = {} THEN <<>>
       ELSE LET s == CHOOSE x \in starts : \A y \in starts : x <= y
                k == IF type # "alarm" /\ ahead(s) THEN s + 1 ELSE s
                e == IF type # "alarm" /\ k < Len(text) THEN k + 1 ELSE k
            IN <<FaultElement(SubSeq(text, s, e), type, confidence, s - 1)>>
               \o finditer(text, type, confidence, e + 1)

pattern_elements(text, type, confidence) == finditer(text, type, confidence, 1)

\* the two loops over the pattern dictionary
rule_elements(text, keyword_confidence, pattern_confidence) ==
    Concat([t \in 1..Len(FaultTypes) |->
               keyword_elements(text, FaultTypes[t], keyword_confidence)
               \o pattern_elements(text, FaultTypes[t], pattern_confidence)])

\* the first element of every key is kept; key is a function of the elements
RECURSIVE unique_by(_, _)
unique_by(s, key) ==
    IF s = <<>> THEN <<>>
    ELSE LET init == unique_by(SubSeq(s, 1, Len(s) - 1), key)
             last == s[Len(s)]
         IN IF \E i \in 1..Len(init) : key[init[i]] = key[last]
            THEN init ELSE Append(init, last)

\* list.sort(key=position): ascending and stable
sort_by_position(s) == SortedDesc(s, [x \in Range(s) |-> 0 - x.position])

\* a text that is no string: the keyword test raises TypeError
rules_raise(text) == text = NoneText

\* TextProcessor._deduplicate_elements
deduplicate_elements(s) ==
    unique_by(s, [x \in Range(s) |-> <<x.content, x.element_type>>])

\* TextProcessor._extract_with_rules, for a text that is a string
extract_with_rules(text) ==
    sort_by_position(deduplicate_elements(rule_elements(text, 80, 90)))

\* EntityRecognizer._extract_with_rules, for a text that is a string
fallback_rules(text) == rule_elements(text, 70, 80)

\* EntityRecognizer.entity_type_mapping, PHENOMENON for an unknown type
entity_type_mapping(type) ==
    CASE type \in {"COMPONENT", "DETECTION_TOOL"} -> "location"
      [] type \in {"PERFORMANCE", "FAULT_STATE"} -> "phenomenon"
      [] OTHER -> "phenomenon"

\* replies of the recognition service: status "ok" is a JSON reply with a
\* list of entities; every other status makes _extract_with_ner_service raise
Reply(status, entities) == [status |-> status, entities |-> entities]

Entity(name, type, start_pos) == [name |-> name, type |-> type, start_pos |-> start_pos]

\* _extract_with_ner_service: the elements of the reply, or an exception
extract_with_ner_service(text, reply) ==
    IF reply.status # "ok" THEN Exception
    ELSE Returned([i \in 1..Len(reply.entities) |->
                      FaultElement(reply.entities[i].name,
                                   entity_type_mapping(reply.entities[i].type),
                                   90, reply.entities[i].start_pos)])

\* content.lower() of a content that is no string raises AttributeError
lower_raises(elements) == \E i \in 1..Len(elements) : elements[i].content = NoneText

lower_content(content) == [i \in 1..Len(content) |-> Lower(content[i])]

\* _merge_elements: the rule elements whose lowered content is new
merge_elements(ner_elements, rule_elements_) ==
    LET RECURSIVE merge(_, _)
        merge(all, rest) ==
            IF rest = <<>> THEN all
            ELSE IF \E i \in 1..Len(all) :
                        lower_content(all[i].content) = lower_content(Head(rest).content)
                 THEN merge(all, Tail(rest))
                 ELSE merge(Append(all, Head(rest)), Tail(rest))
    IN merge(ner_elements, rule_elements_)

MinNerElements == 3

MaxElementsKept == 15

\* len(content.strip()) >= 2: a content of one short word or none is dropped
long_enough(content) == content # <<>> /\ ~(Len(content) = 1 /\ content[1] \in ShortWords)

\* the post-processing whose cap keeps the first elements by position
post_process_elements_by_position(elements) ==
    LET unique == unique_by(elements,
                      [x \in Range(elements) |->
                          <<lower_content(x.content), x.element_type>>])
        filtered == sort_by_position(SelectSeq(unique, LAMBDA x : long_enough(x.content)))
    IN Take(filtered, MaxElementsKept)

\* _post_process_elements, for contents that are strings
post_process_elements(elements) ==
    LET unique == unique_by(elements,
                      [x \in Range(elements) |->
                          <<lower_content(x.content), x.element_type>>])
        filtered == sort_by_position(SelectSeq(unique, LAMBDA x : long_enough(x.content)))
    IN IF Len(filtered) > MaxElementsKept
       THEN sort_by_position(
                Take(SortedDesc(filtered, [x \in Range(filtered) |-> x.confidence]),
                     MaxElementsKept))
       ELSE filtered

\* the result of an extraction and the availability flag it leaves
Extracted(raised, value, available) ==
    [raised |-> raised, value |-> value, service_available |-> available]

\* extract_entities with the rule scanner run on every call
extract_entities_supplemented(text, reply, available) ==
    LET ner == IF available THEN extract_with_ner_service(text, reply)
               ELSE Returned(<<>>)
        still == available /\ ~ner.raised
        elements == IF ner.raised THEN <<>> ELSE ner.value
    IN IF rules_raise(text) \/ lower_raises(elements)
       THEN Extracted(TRUE, <<>>, still)
       ELSE Extracted(FALSE,
                      post_process_elements(merge_elements(elements, fallback_rules(text))),
                      still)

\* EntityRecognizer.extract_entities
extract_entities(text, reply, available) ==
    LET ner == IF available THEN extract_with_ner_service(text, reply)
               ELSE Returned(<<>>)
        still == available /\ ~ner.raised
        elements == IF ner.raised THEN <<>> ELSE ner.value
        supplement == ~still \/ Len(elements) < MinNerElements
    IN IF supplement /\ (rules_raise(text) \/ lower_raises(elements))
       THEN Extracted(TRUE, <<>>, still)
       ELSE LET merged == IF supplement
                          THEN merge_elements(elements, fallback_rules(text))
                          ELSE elements
            IN IF merged # <<>> /\ lower_raises(merged)
               THEN Extracted(TRUE, <<>>, still)
               ELSE Extracted(FALSE, post_process_elements(merged), still)

\* the extractor without its handler: what the recognizer raises goes on
extract_fault_elements_unguarded(text, reply, enabled, available) ==
    IF enabled THEN extract_entities(text, reply, available)
    ELSE IF rules_raise(text) THEN Extracted(TRUE, <<>>, available)
    ELSE Extracted(FALSE, extract_with_rules(text), available)

\* TextProcessor.extract_fault_elements
extract_fault_elements(text, reply, enabled, available) ==
    IF enabled
    THEN LET r == extract_entities(text, reply, available)
         IN IF ~r.raised THEN r
            ELSE IF rules_raise(text) THEN Extracted(TRUE, <<>>, r.service_available)
            ELSE Extracted(FALSE, extract_with_rules(text), r.service_available)
    ELSE IF rules_raise(text) THEN Extracted(TRUE, <<>>, available)
    ELSE Extracted(FALSE, extract_with_rules(text), available)

(***************************************************************************)
(* FaultAnalyzer.add_user_feedback and the feedback endpoint.  A score is  *)
(* in hundredths, as the similarities are.                                 *)
(***************************************************************************)
SuccessThreshold == 80

\* str(uuid.uuid4()): an identifier no stored case has
Uuids == <<"uuid1", "uuid2", "uuid3", "uuid4", "uuid5", "uuid6">>

uuid4(cs) == Uuids[Len(cs) + 1]

\* the matcher and the availability flag, as one value
AnalyzerState(cs, vz, cv, available) ==
    [cases |-> cs, vectorizer |-> vz, case_vectors |-> cv,
     service_available |-> available]

\* _add_successful_case, given what extract_fault_elements did for the
\* description: the state it leaves; an exception of the extraction is
\* logged and nothing is stored
add_successful_case(cs, vz, cv, user_query, solution, extracted) ==
    LET new_case == [case_id |-> uuid4(cs),
                     description |-> user_query.fault_description,
                     similarity |-> One,
                     elements |-> extracted.value,
                     solution |-> solution]
        stored == cs \o <<new_case>>
        built == build_vectors(stored, vz, cv)
    IN IF extracted.raised
       THEN AnalyzerState(cs, vz, cv, extracted.service_available)
       ELSE AnalyzerState(stored, built[1], built[2], extracted.service_available)

\* add_user_feedback without the threshold: every feedback is stored
add_user_feedback_always(cs, vz, cv, user_query, solution, effectiveness_score, extracted, available) ==
    add_successful_case(cs, vz, cv, user_query, solution, extracted)

\* FaultAnalyzer.add_user_feedback: the state it leaves; extracted is what
\* the extraction does if it is called, available the flag before the call
add_user_feedback(cs, vz, cv, user_query, solution, effectiveness_score, extracted, available) ==
    IF effectiveness_score >= SuccessThreshold
    THEN add_successful_case(cs, vz, cv, user_query, solution, extracted)
    ELSE AnalyzerState(cs, vz, cv, available)

\* values of the JSON body of a feedback request
JsonNumber(value) == [kind |-> "number", value |-> value]

JsonString(text) == [kind |-> "string", text |-> text]

JsonNull == [kind |-> "null"]

\* float(effectiveness): a number, NaN, or the exception it raises
float(json) ==
    CASE json.kind = "number" -> [kind |-> "float", value |-> json.value]
      [] json.kind = "null" -> [kind |-> "TypeError"]
      [] json.kind = "string" ->
           CASE json.text = "0.9" -> [kind |-> "float", value |-> 90]
             [] json.text = "1.5" -> [kind |-> "float", value |-> 150]
             [] json.text = "nan" -> [kind |-> "nan"]
             [] OTHER -> [kind |-> "ValueError"]

\* 0 <= effectiveness <= 1; every comparison with NaN is false
in_range(effectiveness) ==
    effectiveness.kind = "float" /\ 0 <= effectiveness.value /\ effectiveness.value <= One

FeedbackBody(question, solution, effectiveness) ==
    [question |-> question, solution |-> solution, effectiveness |-> effectiveness]

\* the validation without the range test
feedback_code_norange(body) ==
    IF body.question = <<>> \/ body.solution = <<>> THEN 400
    ELSE IF float(body.effectiveness).kind = "ValueError" THEN 400
    ELSE IF float(body.effectiveness).kind \in {"TypeError", "nan"} THEN 500
    ELSE 200

\* the status code of kgqa_feedback for a body
feedback_code(body) ==
    IF body.question = <<>> \/ body.solution = <<>> THEN 400
    ELSE IF float(body.effectiveness).kind = "ValueError" THEN 400
    ELSE IF float(body.effectiveness).kind = "TypeError" THEN 500
    ELSE IF ~in_range(float(body.effectiveness)) THEN 400
    ELSE 200

(***************************************************************************)
(* FaultAnalyzer.analyze_fault from the description: steps 1 and 2, the    *)
(* cleaning, the sentences and the extraction of their elements.           *)
(***************************************************************************)
\* the sentence delimiter: the word that stands for the ideographic full
\* stop, which clean_text keeps
FullStop == "."

\* re.split on the delimiters, the empty sentences dropped
RECURSIVE split_sentences(_)
split_sentences(text) ==
    IF text = <<>> THEN <<>>
    ELSE IF Head(text) = FullStop THEN split_sentences(Tail(text))
    ELSE LET stops == {i \in 1..Len(text) : text[i] = FullStop}
             n == IF stops = {} THEN Len(text) + 1
                  ELSE CHOOSE i \in stops : \A j \in stops : i <= j
         IN <<SubSeq(text, 1, n - 1)>>
            \o split_sentences(SubSeq(text, n + 1, Len(text)))

\* the loops over the sentences and the related phenomena: the elements of
\* every text in turn, the availability flag carried from call to call
RECURSIVE extract_all(_, _, _, _)
extract_all(texts, reply, enabled, available) ==
    IF texts = <<>> THEN Extracted(FALSE, <<>>, available)
    ELSE LET first == extract_fault_elements(Head(texts), reply, enabled, available)
             rest == extract_all(Tail(texts), reply, enabled, first.service_available)
         IN IF first.raised THEN first
            ELSE Extracted(rest.raised, first.value \o rest.value, rest.service_available)

\* the texts analyze_fault hands to the extractor
extraction_texts(user_query) ==
    split_sentences(clean_text(user_query.fault_description))
    \o user_query.related_phenomena

\* steps 1 and 2 of analyze_fault: clean_text raises for a description that
\* is no string, before any extraction
extract_description(user_query, reply, recognition, available) ==
    IF analyzer_raises(user_query) THEN Extracted(TRUE, <<>>, available)
    ELSE extract_all(extraction_texts(user_query), reply, recognition, available)

\* analyze_fault that gives up when the recognition service is not available
analyze_description_strict(cs, vz, cv, user_query, extracted, failing, enabled, web) ==
    IF extracted.raised \/ ~extracted.service_available THEN AnalyzerError
    ELSE analyze_fault(cs, vz, cv, user_query, extracted.value, failing, enabled, web)

\* analyze_fault, given what steps 1 and 2 extracted from the description
analyze_description(cs, vz, cv, user_query, extracted, failing, enabled, web) ==
    IF extracted.raised THEN AnalyzerError
    ELSE analyze_fault(cs, vz, cv, user_query, extracted.value, failing, enabled, web)

(***************************************************************************)
(* Specification of the case matcher: construction without stored files,   *)
(* then add_case, add_cases_batch and find_similar_cases in any order.     *)
(***************************************************************************)
Init ==
    /\ cases = <<>>
    /\ vectorizer = NoVectorizer
    /\ case_vectors = NoVectors
    /\ enable_web_search = TRUE
    /\ enable_entity_recognition = TRUE
    /\ service_available = TRUE
    /\ op = "idle"
    /\ args = Idle
    /\ ret = Idle
    /\ locals = Idle

\* the caller takes the result
Done ==
    /\ op # "idle"
    /\ op' = "idle"
    /\ args' = Idle
    /\ ret' = Idle
    /\ locals' = Idle
    /\ UNCHANGED <<cases, vectorizer, case_vectors, enable_web_search,
                 enable_entity_recognition, service_available>>

extend_cases(cs, new) == cs \o new

\* add_case and add_cases_batch: extend the corpus, then _build_vectors
add_cases(new) ==
    LET cs == extend_cases(cases, new)
        built == build_vectors(cs, vectorizer, case_vectors)
    IN /\ cases' = cs
       /\ vectorizer' = built[1]
       /\ case_vectors' = built[2]

AddCase(case) ==
    /\ op = "idle"
    /\ Len(cases) < MaxCases
    /\ add_cases(<<case>>)
    /\ op' = "add_case"
    /\ args' = [case |-> case]
    /\ ret' = Idle
    /\ locals' = [before |-> cases]
    /\ UNCHANGED <<enable_web_search, enable_entity_recognition, service_available>>

AddCasesBatch(batch) ==
    /\ op = "idle"
    /\ Len(cases) + Len(batch) <= MaxCases
    /\ add_cases(batch)
    /\ op' = "add_cases_batch"
    /\ args' = [cases |-> batch]
    /\ ret' = Idle
    /\ locals' = [before |-> cases]
    /\ UNCHANGED <<enable_web_search, enable_entity_recognition, service_available>>

\* the stored cases with the similarity of every returned case written into
\* the stored object
stored_after_find_inplace(cs, found) ==
    [i \in 1..Len(cs) |->
        IF \E j \in 1..Len(found) : found[j].case_id = cs[i].case_id
        THEN [cs[i] EXCEPT !.similarity =
                 found[CHOOSE j \in 1..Len(found) :
                           found[j].case_id = cs[i].case_id].similarity]
        ELSE cs[i]]

\* the stored cases after a search: every result is a new SimilarCase built
\* from the stored one, which is not written
stored_after_find(cs, found) == cs

\* one call of find_similar_cases with the given arguments
find_call(query, top_k, min_similarity) ==
    /\ op' = "find_similar_cases"
    /\ args' = [query |-> query, top_k |-> top_k, min_similarity |-> min_similarity]
    /\ ret' = find_similar_cases(cases, vectorizer, case_vectors,
                                 query, top_k, min_similarity)
    /\ cases' = stored_after_find(cases,
                     find_similar_cases(cases, vectorizer, case_vectors,
                                        query, top_k, min_similarity).value)
    /\ locals' = Idle
    /\ UNCHANGED <<vectorizer, case_vectors, enable_web_search,
                 enable_entity_recognition, service_available>>

FindSimilarCases(query, top_k, min_similarity) ==
    /\ op = "idle"
    /\ find_call(query, top_k, min_similarity)

\* the caller repeats the search it has just made, nothing in between
RepeatFindSimilarCases ==
    /\ op = "find_similar_cases"
    /\ find_call(args.query, args.top_k, args.min_similarity)

Next ==
    \/ op = "idle" /\ \E case \in CaseInputs : AddCase(case)
    \/ op = "idle" /\ \E batch \in SeqsUpTo(CaseInputs, MaxBatch) : AddCasesBatch(batch)
    \/ op = "idle" /\ \E query \in MatcherQueries, top_k \in 0..MaxTopK,
          min_similarity \in MinSimilarities :
            FindSimilarCases(query, top_k, min_similarity)
    \/ RepeatFindSimilarCases
    \/ Done

Spec == Init /\ [][Next]_vars

(***************************************************************************)
(* Specification of a diagnosis service: an analyzer whose matcher is      *)
(* either empty or holds the seeded corpus, serving analyze_fault, the     *)
(* diagnosis endpoint and direct calls of the recommender and the engine.  *)
(***************************************************************************)
K_wear == Case("k5", <<"spindle", "bearing", "vibration">>, <<E_vibration>>,
               <<"replace", "bearing", "lubrication">>)

SeedCases == <<K_bearing, K_noise, K_alarm, K_short, K_wear>>

\* the matcher after add_cases_batch(SeedCases) on a new matcher
SeedIndex == build_vectors(SeedCases, NoVectorizer, NoVectors)

\* requests of the analyzer: the equipment fields are strings or None as
\* the signature of analyze_fault declares them; a description of None
\* drives the handler of analyze_fault
DiagnosisQueries == {Q_spindle, Q_alarm, Q_none, Q_empty}

\* results of the extraction of the sentences of a description
ElementLists ==
    {<<>>, <<E_stuck, E_operation>>, <<E_vibration, E_temperature>>,
     <<E_location, E_alarm>>}

Elements == {E_operation, E_stuck, E_vibration, E_temperature, E_location, E_alarm}

MaxElements == 2

StoreQueries ==
    {<<"causes", <<"tool_stuck">>>>, <<"causes", <<"alarm">>>>,
     <<"operations", <<"tool_change">>>>, <<"locations", <<"tool_magazine">>>>}

FailingSets == {{}} \cup {{q} : q \in StoreQueries} \cup {StoreQueries}

KgEntry(cause, confidence) ==
    [cause |-> cause, confidence |-> confidence, related_phenomenon |-> <<"tool_stuck">>]

KgCauseInputs ==
    {KgEntry("tool_chain_jam", One), KgEntry("cnc_system_fault", 0)}

SimilarInputs ==
    {[K_alarm EXCEPT !.similarity = One], [K_short EXCEPT !.similarity = 30]}

MaxKgCauses == 2

MaxSimilar == 2

\* (user_query, fault_elements) of the direct recommender calls
RecommenderRequests ==
    {<<Q_alarm, <<E_vibration, E_temperature>>>>, <<Q_spindle, <<>>>>,
     <<Q_badbrand, <<>>>>, <<Q_none, <<E_stuck>>>>}

KgResult(causes) == [causes |-> causes, related_phenomena |-> <<>>]

\* the outcomes of the mock search that a call can use
WebOutcomes(needed) == IF needed THEN mock_web_search ELSE {<<>>}

InitDiagnosis ==
    /\ \/ /\ cases = <<>>
          /\ vectorizer = NoVectorizer
          /\ case_vectors = NoVectors
       \/ /\ cases = SeedCases
          /\ vectorizer = SeedIndex[1]
          /\ case_vectors = SeedIndex[2]
    /\ enable_web_search \in BOOLEAN
    /\ enable_entity_recognition = TRUE
    /\ service_available = TRUE
    /\ op = "idle"
    /\ args = Idle
    /\ ret = Idle
    /\ locals = Idle

AnalyzeFault(user_query, fault_elements, failing, web) ==
    /\ op = "idle"
    /\ op' = "analyze_fault"
    /\ args' = [user_query |-> user_query, failing |-> failing, web |-> web]
    /\ ret' = analyze_fault(cases, vectorizer, case_vectors, user_query,
                            fault_elements, failing, enable_web_search, web)
    /\ locals' = IF analyzer_raises(user_query) THEN [raised |-> TRUE]
                 ELSE [raised |-> FALSE] @@
                      analyze_locals(cases, vectorizer, case_vectors,
                                     user_query, fault_elements, failing)
    /\ UNCHANGED <<cases, vectorizer, case_vectors, enable_web_search,
                 enable_entity_recognition, service_available>>

KgqaDiagnosis(user_query, fault_elements, failing, web) ==
    /\ op = "idle"
    /\ op' = "kgqa_diagnosis"
    /\ args' = [user_query |-> user_query, failing |-> failing, web |-> web]
    /\ ret' = kgqa_diagnosis(cases, vectorizer, case_vectors, user_query,
                             fault_elements, failing, enable_web_search, web)
    /\ locals' = IF user_query.fault_description = <<>>
                 THEN [analyzed |-> FALSE]
                 ELSE [analyzed |-> TRUE,
                       result |-> analyze_fault(cases, vectorizer, case_vectors,
                                                user_query, fault_elements, failing,
                                                enable_web_search, web)]
    /\ UNCHANGED <<cases, vectorizer, case_vectors, enable_web_search,
                 enable_entity_recognition, service_available>>

GenerateRecommendations(kg_result, similar_cases, user_query, fault_elements, web) ==
    /\ op = "idle"
    /\ op' = "generate_recommendations"
    /\ args' = [kg_result |-> kg_result, similar_cases |-> similar_cases,
                user_query |-> user_query, fault_elements |-> fault_elements,
                web |-> web]
    /\ ret' = generate_recommendations(kg_result, similar_cases, user_query,
                                       fault_elements, enable_web_search, web)
    /\ locals' = [raised |-> recommender_raises(user_query)]
    /\ UNCHANGED <<cases, vectorizer, case_vectors, enable_web_search,
                 enable_entity_recognition, service_available>>

ExecuteReasoningChain(fault_elements, failing) ==
    /\ op = "idle"
    /\ op' = "execute_reasoning_chain"
    /\ args' = [fault_elements |-> fault_elements, failing |-> failing]
    /\ ret' = execute_reasoning_chain(fault_elements, failing)
    /\ locals' = chain_locals(fault_elements, failing)
    /\ UNCHANGED <<cases, vectorizer, case_vectors, enable_web_search,
                 enable_entity_recognition, service_available>>

NextDiagnosis ==
    \/ op = "idle" /\ \E user_query \in DiagnosisQueries, fault_elements \in ElementLists,
          failing \in {{}, StoreQueries}, web \in WebOutcomes(enable_web_search) :
            AnalyzeFault(user_query, fault_elements, failing, web)
    \/ op = "idle" /\ \E user_query \in DiagnosisQueries, fault_elements \in ElementLists,
          failing \in {{}, StoreQueries}, web \in WebOutcomes(enable_web_search) :
            KgqaDiagnosis(user_query, fault_elements, failing, web)
    \/ op = "idle" /\ \E causes \in SeqsUpTo(KgCauseInputs, MaxKgCauses),
          similar_cases \in SeqsUpTo(SimilarInputs, MaxSimilar),
          request \in RecommenderRequests, web \in WebOutcomes(enable_web_search) :
            GenerateRecommendations(KgResult(causes), similar_cases,
                                    request[1], request[2], web)
    \/ op = "idle" /\ \E fault_elements \in SeqsUpTo(Elements, MaxElements), failing \in FailingSets :
            ExecuteReasoningChain(fault_elements, failing)
    \/ Done

SpecDiagnosis == InitDiagnosis /\ [][NextDiagnosis]_vars

(***************************************************************************)
(* Specification of the learning loop: an analyzer that starts without     *)
(* cases, with entity recognition switched on or off and the recognition   *)
(* service found available or not at construction, serving the extractor,  *)
(* add_user_feedback and the feedback endpoint.                            *)
(***************************************************************************)
T_alarm == <<"tool_change", "alarm", "ALM401">>

T_spindle == <<"spindle", "vibration">>

T_unknown == <<"unknown">>

Texts == {T_alarm, T_spindle, T_unknown, <<>>, NoneText}

\* replies of the recognition service
R_three ==
    Reply("ok", <<Entity(<<"vibration">>, "FAULT_STATE", 1),
                  Entity(<<"spindle">>, "COMPONENT", 0),
                  Entity(<<"x">>, "PERFORMANCE", 2),
                  Entity(<<"Spindle">>, "DETECTION_TOOL", 3)>>)

R_one == Reply("ok", <<Entity(<<"bearing">>, "UNKNOWN", 4)>>)

R_null_name == Reply("ok", <<Entity(NoneText, "COMPONENT", 0)>>)

R_error == Reply("error", <<>>)

R_timeout == Reply("timeout", <<>>)

R_not_json == Reply("not_json", <<>>)

Replies == {R_three, R_one, R_null_name, R_error, R_timeout, R_not_json}

FeedbackQueries ==
    {UserQuery(T_alarm, "FANUC 0i", None, "ALM401", <<>>), Q_spindle, Q_none}

FeedbackReplies == {R_three, R_error}

FeedbackScores == {0, 79, 80, 100}

S_bearing == <<"replace", "bearing">>

FeedbackBodies ==
    {FeedbackBody(q, sol, e) :
        q \in {<<>>, T_spindle}, sol \in {<<>>, S_bearing},
        e \in {JsonNumber(0 - 10), JsonNumber(0), JsonNumber(79), JsonNumber(80),
               JsonNumber(100), JsonNumber(150), JsonString("0.9"),
               JsonString("1.5"), JsonString("nan"), JsonString("abc"), JsonNull}}

\* descriptions for analyze_fault: one phenomenon; two sentences and a
\* related phenomenon; no string
AnalysisQueries ==
    {UserQuery(<<"vibration">>, None, None, None, <<>>),
     UserQuery(<<"tool_stuck", ".", "ALM401">>, None, None, None,
               << <<"spindle", "noise">> >>),
     Q_none}

\* every query the store can be asked during these analyses: a kind with a
\* part of a sentence, the name of a recognised entity or a phenomenon title
EveryStoreQuery ==
    LET parts(text) == {SubSeq(text, i, j) : i \in 1..Len(text), j \in 1..Len(text)}
        texts == UNION {Range(extraction_texts(q)) : q \in AnalysisQueries \ {Q_none}}
        names == UNION {{r.entities[i].name : i \in 1..Len(r.entities)} : r \in Replies}
        titles == {<<XY[i][1]>> : i \in 1..Len(XY)} \cup {<<XX[i][2]>> : i \in 1..Len(XX)}
                  \cup {<<CX[i][2]>> : i \in 1..Len(CX)} \cup {<<XB[i][2]>> : i \in 1..Len(XB)}
                  \cup {<<XJ[i][2]>> : i \in 1..Len(XJ)}
    IN {"causes", "operations", "locations", "alarms"}
       \X (UNION {parts(t) : t \in texts} \cup names \cup titles)

InitService ==
    /\ \/ /\ cases = <<>>
          /\ vectorizer = NoVectorizer
          /\ case_vectors = NoVectors
       \/ /\ cases = SeedCases
          /\ vectorizer = SeedIndex[1]
          /\ case_vectors = SeedIndex[2]
    /\ enable_web_search = FALSE
    /\ enable_entity_recognition \in BOOLEAN
    /\ service_available \in BOOLEAN
    /\ op = "idle"
    /\ args = Idle
    /\ ret = Idle
    /\ locals = Idle

\* the analyzer takes the state an operation leaves
becomes(state) ==
    /\ cases' = state.cases
    /\ vectorizer' = state.vectorizer
    /\ case_vectors' = state.case_vectors
    /\ service_available' = state.service_available

ExtractFaultElements(text, reply) ==
    /\ op = "idle"
    /\ \E extracted \in {extract_fault_elements(text, reply, enable_entity_recognition,
                                                service_available)} :
          /\ ret' = [raised |-> extracted.raised, value |-> extracted.value]
          /\ service_available' = extracted.service_available
    /\ op' = "extract_fault_elements"
    /\ args' = [text |-> text, reply |-> reply]
    /\ locals' = [service_available |-> service_available]
    /\ UNCHANGED <<cases, vectorizer, case_vectors, enable_web_search,
                 enable_entity_recognition>>

AddUserFeedback(user_query, solution, effectiveness_score, reply) ==
    /\ op = "idle"
    /\ Len(cases) < MaxCases
    /\ op' = "add_user_feedback"
    /\ args' = [user_query |-> user_query, solution |-> solution,
                effectiveness_score |-> effectiveness_score, reply |-> reply]
    /\ ret' = Idle
    /\ locals' = [before |-> cases]
    /\ \E extracted \in {extract_fault_elements(user_query.fault_description, reply,
                                                enable_entity_recognition,
                                                service_available)} :
          \E state \in {add_user_feedback(cases, vectorizer, case_vectors, user_query,
                                          solution, effectiveness_score, extracted,
                                          service_available)} :
              becomes(state)
    /\ UNCHANGED <<enable_web_search, enable_entity_recognition>>

KgqaFeedback(body, reply) ==
    /\ op = "idle"
    /\ Len(cases) < MaxCases
    /\ op' = "kgqa_feedback"
    /\ args' = [body |-> body, reply |-> reply]
    /\ \E code \in {feedback_code(body)} :
          /\ ret' = [code |-> code, feedback_recorded |-> code = 200]
          /\ locals' = [before |-> cases, called |-> code = 200]
          /\ IF code = 200
             THEN \E extracted \in {extract_fault_elements(body.question, reply,
                                        enable_entity_recognition, service_available)} :
                      \E state \in {add_user_feedback(cases, vectorizer, case_vectors,
                                        UserQuery(body.question, None, None, None, <<>>),
                                        body.solution, float(body.effectiveness).value,
                                        extracted, service_available)} :
                          becomes(state)
             ELSE UNCHANGED <<cases, vectorizer, case_vectors, service_available>>
    /\ UNCHANGED <<enable_web_search, enable_entity_recognition>>

AnalyzeDescription(user_query, reply, failing) ==
    /\ op = "idle"
    /\ op' = "analyze_fault"
    /\ args' = [user_query |-> user_query, reply |-> reply, failing |-> failing]
    /\ \E extracted \in {extract_description(user_query, reply,
                                             enable_entity_recognition,
                                             service_available)} :
          /\ ret' = analyze_description(cases, vectorizer, case_vectors, user_query,
                                        extracted, failing, enable_web_search, <<>>)
          /\ locals' = IF extracted.raised
                       THEN [raised |-> TRUE, service_available |-> service_available]
                       ELSE [raised |-> FALSE, service_available |-> service_available] @@
                            analyze_locals(cases, vectorizer, case_vectors, user_query,
                                           extracted.value, failing)
          /\ service_available' = extracted.service_available
    /\ UNCHANGED <<cases, vectorizer, case_vectors, enable_web_search,
                 enable_entity_recognition>>

NextService ==
    \/ op = "idle" /\ \E text \in Texts, reply \in Replies :
            ExtractFaultElements(text, reply)
    \/ op = "idle" /\ \E user_query \in FeedbackQueries, effectiveness_score \in FeedbackScores,
          reply \in FeedbackReplies :
            AddUserFeedback(user_query, S_bearing, effectiveness_score, reply)
    \/ op = "idle" /\ \E body \in FeedbackBodies, reply \in FeedbackReplies :
            KgqaFeedback(body, reply)
    \/ Done

SpecService == InitService /\ [][NextService]_vars

(***************************************************************************)
(* Specification of the analysis from the description: the same analyzer,  *)
(* serving analyze_fault while the graph store answers or fails and the    *)
(* recognition service replies, fails or is switched off.                  *)
(***************************************************************************)
NextAnalysis ==
    \/ op = "idle" /\ \E user_query \in AnalysisQueries, reply \in Replies,
          failing \in {{}, EveryStoreQuery} :
            AnalyzeDescription(user_query, reply, failing)
    \/ Done

SpecAnalysis == InitService /\ [][NextAnalysis]_vars

(***************************************************************************)
(* Specification of one matcher shared by request threads.  The analyzer   *)
(* of the endpoints is a module global and the matcher takes no lock, so   *)
(* the statements of add_case and find_similar_cases of different threads  *)
(* interleave.  A thread makes one call; op, args, ret and locals are      *)
(* functions of the thread, and locals[t].pc is the statement the thread   *)
(* executes next.                                                          *)
(***************************************************************************)
MaxThreads == 2

Threads == 1..MaxThreads

\* the corpus the matcher was loaded with, and its index
LoadedCases == <<K_bearing, K_noise>>

LoadedIndex == build_vectors(LoadedCases, NoVectorizer, NoVectors)

ThreadCases == {K_alarm, K_short}

ThreadQueries == {Q_spindle, Q_alarm}

InitThreads ==
    /\ cases = LoadedCases
    /\ vectorizer = LoadedIndex[1]
    /\ case_vectors = LoadedIndex[2]
    /\ enable_web_search = FALSE
    /\ enable_entity_recognition = FALSE
    /\ service_available = FALSE
    /\ op = [t \in Threads |-> "idle"]
    /\ args = [t \in Threads |-> Idle]
    /\ ret = [t \in Threads |-> Idle]
    /\ locals = [t \in Threads |-> [pc |-> "idle"]]

\* add_case, first statement: self.cases.append(case)
AppendCase(t, case) ==
    /\ locals[t].pc = "idle"
    /\ cases' = extend_cases(cases, <<case>>)
    /\ op' = [op EXCEPT ![t] = "add_case"]
    /\ args' = [args EXCEPT ![t] = [case |-> case]]
    /\ locals' = [locals EXCEPT ![t] = [pc |-> "texts"]]
    /\ UNCHANGED <<vectorizer, case_vectors, ret, enable_web_search,
                 enable_entity_recognition, service_available>>

\* _build_vectors, the loop over self.cases that prepares the texts
ReadCases(t) ==
    /\ locals[t].pc = "texts"
    /\ locals' = [locals EXCEPT ![t] = [pc |-> "vectors", cases |-> cases]]
    /\ UNCHANGED <<cases, vectorizer, case_vectors, op, args, ret, enable_web_search,
                 enable_entity_recognition, service_available>>

\* _build_vectors, the assignment of the vectors of the prepared texts
AssignVectors(t) ==
    /\ locals[t].pc = "vectors"
    /\ vectorizer' = build_vectors(locals[t].cases, vectorizer, case_vectors)[1]
    /\ case_vectors' = build_vectors(locals[t].cases, vectorizer, case_vectors)[2]
    /\ locals' = [locals EXCEPT ![t] = [pc |-> "done"]]
    /\ UNCHANGED <<cases, op, args, ret, enable_web_search,
                 enable_entity_recognition, service_available>>

\* find_similar_cases, the test of the first line
BeginFind(t, query, top_k, min_similarity) ==
    /\ locals[t].pc = "idle"
    /\ op' = [op EXCEPT ![t] = "find_similar_cases"]
    /\ args' = [args EXCEPT ![t] = [query |-> query, top_k |-> top_k,
                                      min_similarity |-> min_similarity]]
    /\ IF index_missing(cases, vectorizer, case_vectors) \/ query_raises(query)
       THEN /\ ret' = [ret EXCEPT ![t] = Returned(<<>>)]
            /\ locals' = [locals EXCEPT ![t] = [pc |-> "done"]]
       ELSE /\ ret' = ret
            /\ locals' = [locals EXCEPT ![t] = [pc |-> "similarities"]]
    /\ UNCHANGED <<cases, vectorizer, case_vectors, enable_web_search,
                 enable_entity_recognition, service_available>>

\* find_similar_cases, cosine_similarity(query_vector, self.case_vectors):
\* the thread reads the index; the corpus of that moment is kept beside it
ComputeSimilarities(t) ==
    /\ locals[t].pc = "similarities"
    /\ locals' = [locals EXCEPT ![t] =
                     [pc |-> "select", cases |-> cases, rows |-> case_vectors.rows,
                      similarities |-> similarities_of(vectorizer, case_vectors,
                                                       args[t].query)]]
    /\ UNCHANGED <<cases, vectorizer, case_vectors, op, args, ret, enable_web_search,
                 enable_entity_recognition, service_available>>

\* find_similar_cases, the loop over the best indices, which reads self.cases
SelectCases(t) ==
    /\ locals[t].pc = "select"
    /\ LET picked == select_cases(locals[t].similarities, args[t].top_k,
                                  args[t].min_similarity)
       IN ret' = [ret EXCEPT ![t] =
                     Returned([k \in 1..Len(picked) |->
                         [cases[picked[k]] EXCEPT
                             !.similarity = locals[t].similarities[picked[k]]]])]
    /\ locals' = [locals EXCEPT ![t] = [pc |-> "done", cases |-> locals[t].cases,
                                        rows |-> locals[t].rows]]
    /\ UNCHANGED <<cases, vectorizer, case_vectors, op, args, enable_web_search,
                 enable_entity_recognition, service_available>>

NextThreads ==
    \/ \E t \in Threads, case \in ThreadCases : AppendCase(t, case)
    \/ \E t \in Threads : ReadCases(t)
    \/ \E t \in Threads : AssignVectors(t)
    \/ \E t \in Threads, query \in ThreadQueries : BeginFind(t, query, MaxTopK, 0)
    \/ \E t \in Threads : ComputeSimilarities(t)
    \/ \E t \in Threads : SelectCases(t)

SpecThreads == InitThreads /\ [][NextThreads]_vars

(***************************************************************************)
(* Properties                                                              *)
(***************************************************************************)
IsDiagnosis == op \in {"generate_recommendations", "analyze_fault"}

\* the evidence the recommender was given in the last diagnosis
GivenCauses ==
    IF op = "generate_recommendations" THEN args.kg_result.causes
    ELSE locals.kg_reasoning_result.causes

GivenCases ==
    IF op = "generate_recommendations" THEN args.similar_cases
    ELSE locals.similar_cases

Aggregated == IsDiagnosis /\ ~locals.raised

InUnit(x) == 0 <= x /\ x <= One

\* C1: every DiagnosisResult returned by generate_recommendations or
\* analyze_fault whose graph confidences and case similarities lie in
\* [0,1] has 0 <= confidence <= 1, on the normal path, the path with both
\* sources empty and the error paths.
C1_ConfidenceInUnitInterval ==
    IsDiagnosis =>
        ((~locals.raised =>
              /\ \A i \in 1..Len(GivenCauses) : InUnit(GivenCauses[i].confidence)
              /\ \A i \in 1..Len(GivenCases) : InUnit(GivenCases[i].similarity))
         => /\ ret.confidence.den > 0
            /\ 0 <= ret.confidence.num
            /\ ret.confidence.num <= ret.confidence.den)

C1_Witness ==
    /\ op = "generate_recommendations"
    /\ ~locals.raised
    /\ \A i \in 1..Len(GivenCauses) : GivenCauses[i].confidence = One
    /\ GivenCauses # <<>>
    /\ GivenCases = <<>>
    /\ ret.confidence.num > 0

\* the sums and lengths of the two evidence lists
SumConfidence == SumSeq([i \in 1..Len(GivenCauses) |-> GivenCauses[i].confidence])

SumSimilarity == SumSeq([i \in 1..Len(GivenCases) |-> GivenCases[i].similarity])

\* C2: the confidence is 0.6 * average(graph confidences) + 0.4 *
\* average(case similarities) when both sources are non-empty, and the
\* remaining term alone when exactly one source is empty.
C2_WeightedSum ==
    (op = "generate_recommendations" /\ ~locals.raised) =>
        LET ng == Len(GivenCauses)
            ns == Len(GivenCases)
        IN /\ (ng > 0 /\ ns > 0) =>
                 ret.confidence.num * (10 * One * ng * ns)
                 = (6 * SumConfidence * ns + 4 * SumSimilarity * ng) * ret.confidence.den
           /\ (ng > 0 /\ ns = 0) =>
                 ret.confidence.num * (10 * One * ng)
                 = 6 * SumConfidence * ret.confidence.den
           /\ (ng = 0 /\ ns > 0) =>
                 ret.confidence.num * (10 * One * ns)
                 = 4 * SumSimilarity * ret.confidence.den

\* C3: with zero extracted elements and an empty corpus analyze_fault
\* returns causes == [] and confidence == 0.1 and not an error result.
C3_EmptyEvidenceFloor ==
    (/\ op = "analyze_fault"
     /\ ~locals.raised
     /\ locals.fault_elements = <<>>
     /\ cases = <<>>)
    => /\ ret.causes = <<>>
       /\ ret.confidence = Frac(1, 10)
       /\ ret.causes # AnalyzerError.causes
       /\ ret.causes # RecommenderError.causes

C3_Witness ==
    /\ op = "analyze_fault"
    /\ ~locals.raised
    /\ locals.fault_elements = <<>>
    /\ cases = <<>>
    /\ args.user_query = Q_spindle

\* the fused score of a cause text, in halves of a confidence unit: its
\* graph confidences plus similarity * 0.5 of every case whose solution
\* implies it
FusedScore(c) ==
    SumSeq([i \in 1..Len(GivenCauses) |->
                IF GivenCauses[i].cause = c THEN 2 * GivenCauses[i].confidence ELSE 0])
    + SumSeq([i \in 1..Len(GivenCases) |->
                IF c \in Range(infer_causes_from_solution(GivenCases[i].solution))
                THEN GivenCases[i].similarity ELSE 0])

Contributed ==
    {GivenCauses[i].cause : i \in 1..Len(GivenCauses)}
    \cup UNION {Range(infer_causes_from_solution(GivenCases[i].solution)) :
                    i \in 1..Len(GivenCases)}

\* C4: causes holds at most 5 causes in non-increasing order of fused
\* score, and no omitted cause scores higher than a returned one.
C4_CausesRanked ==
    Aggregated =>
        /\ Len(ret.causes) <= 5
        /\ \A i, j \in 1..Len(ret.causes) :
              i < j => FusedScore(ret.causes[i]) >= FusedScore(ret.causes[j])
        /\ \A c \in Contributed \ Range(ret.causes) :
              \A i \in 1..Len(ret.causes) : FusedScore(c) <= FusedScore(ret.causes[i])

C4_Witness ==
    /\ Aggregated
    /\ Cardinality(Contributed) > 5
    /\ Len(ret.causes) = 5
    /\ FusedScore(ret.causes[1]) > FusedScore(ret.causes[5])
    /\ \E c \in Contributed \ Range(ret.causes) :
          FusedScore(c) < FusedScore(ret.causes[5])

External(solutions) == {i \in 1..Len(solutions) : solutions[i] \in mock_results}

\* C5 as stated: the solutions of every DiagnosisResult returned by
\* generate_recommendations number at most 10, the fallback search included.
C5_SolutionsAtMostTen ==
    op = "generate_recommendations" => Len(ret.solutions) <= 10

\* C5 amended: at most 10 solutions come from the causes, the equipment,
\* the alarm code and the elements; the fallback search appends at most 3
\* more after the cap, and only when web search is enabled and the
\* confidence is below 0.7; the endpoint payload carries at most 10.
C5_SolutionsCappedBeforeFallback ==
    /\ IsDiagnosis =>
          /\ Len(ret.solutions) - Cardinality(External(ret.solutions)) <= 10
          /\ Cardinality(External(ret.solutions)) <= 3
          /\ Len(ret.solutions) > 10 =>
                (enable_web_search /\ FracLt(ret.confidence, Frac(7, 10)))
    /\ op = "kgqa_diagnosis" => Len(ret.data.solutions) <= 10

C5_Witness ==
    /\ op = "generate_recommendations"
    /\ Len(ret.solutions) = 13
    /\ Cardinality(External(ret.solutions)) = 3

C7_DecayOrdering ==
    op = "execute_reasoning_chain" =>
        /\ Len(locals.indirect_causes) = Len(locals.store_indirect)
        /\ \A k \in 1..Len(locals.indirect_causes) :
              /\ 10 * locals.indirect_causes[k].confidence
                 = 8 * locals.store_indirect[k].confidence
              /\ locals.indirect_causes[k].cause = locals.store_indirect[k].cause
        /\ \A d \in 1..Len(locals.direct_causes), k \in 1..Len(locals.indirect_causes) :
              (/\ locals.direct_causes[d].cause = locals.indirect_causes[k].cause
               /\ locals.direct_causes[d].related_phenomenon
                  = locals.indirect_causes[k].related_phenomenon)
              => locals.direct_causes[d].confidence >= locals.indirect_causes[k].confidence

C7_Witness ==
    /\ op = "execute_reasoning_chain"
    /\ \E d \in 1..Len(locals.direct_causes), k \in 1..Len(locals.indirect_causes) :
          /\ locals.direct_causes[d].cause = locals.indirect_causes[k].cause
          /\ locals.direct_causes[d].related_phenomenon
             = locals.indirect_causes[k].related_phenomenon
          /\ locals.direct_causes[d].confidence = 80
          /\ locals.indirect_causes[k].confidence = 80

\* the last call was a find_similar_cases that computed similarities
Matched ==
    /\ op = "find_similar_cases"
    /\ ~index_missing(cases, vectorizer, case_vectors)
    /\ vectorizer.state = "fitted"
    /\ ~query_raises(args.query)

\* similarity of every corpus case to the query of the last call
CaseSimilarity == similarities_of(vectorizer, case_vectors, args.query)

Eligible == {i \in 1..Len(cases) : CaseSimilarity[i] >= args.min_similarity}

Smaller(a, b) == IF a <= b THEN a ELSE b

\* C8: find_similar_cases returns the first top_k of the corpus cases
\* with similarity >= min_similarity in non-increasing order of
\* similarity: length <= top_k, every similarity >= min_similarity,
\* descending order, and no unreturned case better than a returned one.
C8_TopKOfEligible ==
    Matched =>
        LET found == ret.value
        IN /\ ~ret.raised
           /\ Len(found) = Smaller(args.top_k, Cardinality(Eligible))
           /\ \A j \in 1..Len(found) :
                 /\ found[j].similarity >= args.min_similarity
                 /\ \E i \in Eligible :
                       found[j] = [cases[i] EXCEPT !.similarity = CaseSimilarity[i]]
                 /\ Cardinality({i \in Eligible :
                                   CaseSimilarity[i] > found[j].similarity}) <= j - 1
           /\ \A j, k \in 1..Len(found) :
                 j < k => found[j].similarity >= found[k].similarity

C8_Witness ==
    /\ Matched
    /\ args.top_k >= 1
    /\ Len(ret.value) = args.top_k
    /\ Cardinality(Eligible) > args.top_k
    /\ \E i \in 1..Len(cases) : i \notin Eligible
    /\ \E i \in Eligible : CaseSimilarity[i] < ret.value[Len(ret.value)].similarity
    /\ \E i \in Eligible : i > 1 /\ CaseSimilarity[i] > CaseSimilarity[1]

\* C9: when the index was never built (no cases, no vectorizer or no case
\* vectors) find_similar_cases returns an empty list and does not raise,
\* and so it does when the matching fails internally.
C9_EmptyWhenIndexMissing ==
    (/\ op = "find_similar_cases"
     /\ \/ index_missing(cases, vectorizer, case_vectors)
        \/ match_cases(cases, vectorizer, case_vectors, args.query,
                       args.top_k, args.min_similarity).raised)
    => /\ ~ret.raised
       /\ ret.value = <<>>

C9_Witness ==
    /\ op = "find_similar_cases"
    /\ cases # <<>>
    /\ ~case_vectors.built
    /\ ~query_raises(args.query)
    /\ ret.value = <<>>

\* C10: after every completed add_case and add_cases_batch the vectorizer
\* and the case vectors equal those of a fresh build over the whole
\* current corpus.
C10_IndexIsFreshBuild ==
    op \in {"add_case", "add_cases_batch"} =>
        <<vectorizer, case_vectors>> = build_vectors(cases, NoVectorizer, NoVectors)

\* the corpus cases whose indexed text the query of the last call repeats
\* word for word
VerbatimCases ==
    {i \in 1..Len(cases) : query_text(args.query) = case_text(cases[i])}

\* C11: a query built verbatim from the indexed text of a corpus case,
\* seeded first or appended later, has cosine similarity 1.0 with that case.
C11_VerbatimQueryScoresOne ==
    (op = "find_similar_cases" /\ ~query_raises(args.query)) =>
        \A i \in VerbatimCases :
            /\ ~index_missing(cases, vectorizer, case_vectors)
            /\ vectorizer.state = "fitted"
            /\ CaseSimilarity[i] = One

\* a verbatim query that does score 1.0 against its case
C11_Witness ==
    /\ Matched
    /\ \E i \in VerbatimCases : i > 1 /\ CaseSimilarity[i] = One

\* C12: two calls of find_similar_cases with the same query and an
\* unchanged corpus return identical ordered results, and a call leaves the
\* corpus, the vectorizer, the case vectors and the similarity fields of
\* the stored cases unchanged.
C12_ReadsIdempotent ==
    [][/\ op' = "find_similar_cases" => matcher' = matcher
       /\ (op = "find_similar_cases" /\ op' = "find_similar_cases" /\ args' = args)
          => ret' = ret]_vars

\* a search that returned a case with a similarity other than the stored one
C12_Witness ==
    /\ Matched
    /\ \E j \in 1..Len(ret.value), i \in 1..Len(cases) :
          /\ ret.value[j].case_id = cases[i].case_id
          /\ ret.value[j].similarity # cases[i].similarity

\* C13: in any sequence of add_user_feedback calls for descriptions that are
\* strings, a call with a score below 0.8 leaves the stored cases as they
\* were, and a call with a score of 0.8 or more appends exactly one case to
\* them.
C13_FeedbackLearnsAtThreshold ==
    (op = "add_user_feedback" /\ args.user_query.fault_description # NoneText) =>
        IF args.effectiveness_score < 80
        THEN cases = locals.before
        ELSE /\ Len(cases) = Len(locals.before) + 1
             /\ SubSeq(cases, 1, Len(locals.before)) = locals.before

C13_Witness ==
    /\ op = "add_user_feedback"
    /\ args.effectiveness_score = 80
    /\ Len(locals.before) = 1
    /\ Len(cases) = 2
    /\ cases[2].description = args.user_query.fault_description
    /\ cases[2].elements # <<>>

\* C14: a feedback request whose effectiveness is a number outside [0, 1] is
\* answered with status 400; add_user_feedback is not called and the stored
\* cases are as they were.
C14_OutOfRangeRejected ==
    (/\ op = "kgqa_feedback"
     /\ float(args.body.effectiveness).kind = "float"
     /\ \/ float(args.body.effectiveness).value < 0
        \/ float(args.body.effectiveness).value > 100) =>
        /\ ret.code = 400
        /\ ~ret.feedback_recorded
        /\ ~locals.called
        /\ cases = locals.before

C14_Witness ==
    /\ op = "kgqa_feedback"
    /\ args.body = FeedbackBody(T_spindle, S_bearing, JsonNumber(150))
    /\ ret.code = 400
    /\ ~locals.called
    /\ Len(cases) = 1
    /\ cases = locals.before

\* C15: a diagnosis request with an empty fault description is answered with
\* status 400 at once: analyze_fault is not called, the response carries no
\* diagnosis, and the analyzer is as it was.
C15_EmptyDescriptionRejected ==
    (op = "kgqa_diagnosis" /\ args.user_query.fault_description = <<>>) =>
        /\ ret.code = 400
        /\ ~locals.analyzed
        /\ ret.data.causes = <<>>
        /\ ret.data.solutions = <<>>
        /\ ret.data.similar_cases = <<>>
        /\ ret.data.reasoning_path = <<>>

C15_Witness ==
    /\ op = "kgqa_diagnosis"
    /\ args.user_query = Q_empty
    /\ args.failing = {}
    /\ cases = SeedCases
    /\ ret.code = 400
    /\ ~locals.analyzed

\* C16 (as stated): when the aggregation fails, generate_recommendations
\* returns the analysis-failed marker as the only cause, confidence 0, and
\* solutions, reasoning path, similar cases and recommendations all empty.
C16_FailureResultEmpty ==
    (op = "generate_recommendations" /\ locals.raised) =>
        /\ ret.causes = <<"analysis_failed">>
        /\ FracEq(ret.confidence, Frac(0, 1))
        /\ ret.solutions = <<>>
        /\ ret.reasoning_path = <<>>
        /\ ret.similar_cases = <<>>
        /\ ret.recommendations = {}

\* C16 (amended): when the aggregation fails, generate_recommendations
\* returns a result, never an exception: the analysis-failed marker as the
\* only cause, confidence 0, the contact-support entry as the only solution,
\* and reasoning path, similar cases and recommendations empty.
C16_FailureResultMinimal ==
    (op = "generate_recommendations" /\ locals.raised) =>
        /\ ret.causes = <<"analysis_failed">>
        /\ FracEq(ret.confidence, Frac(0, 1))
        /\ ret.solutions = <<"contact_support">>
        /\ ret.reasoning_path = <<>>
        /\ ret.similar_cases = <<>>
        /\ ret.recommendations = {}

C16_Witness ==
    /\ op = "generate_recommendations"
    /\ locals.raised
    /\ args.kg_result.causes # <<>>
    /\ args.similar_cases # <<>>
    /\ ret.solutions = <<"contact_support">>
    /\ ret.similar_cases = <<>>

\* the elements of the dictionary and pattern fallback of the recognizer,
\* merged with no recognised entity, for the sentences and related phenomena
\* of a query
FallbackElements(user_query) ==
    Concat([i \in 1..Len(extraction_texts(user_query)) |->
               post_process_elements(
                   merge_elements(<<>>, fallback_rules(extraction_texts(user_query)[i])))])

\* the recognition service cannot be used during the call in progress
ServiceUnreachable ==
    /\ enable_entity_recognition
    /\ \/ ~locals.service_available
       \/ args.reply.status \in {"error", "timeout"}

\* C17: an analyze_fault call for a description that is a string returns a
\* result that is no error marker, whatever the graph store and the
\* recognition service do.  When every query of the store fails, the graph
\* contributes no cause and the causes and the confidence are those of the
\* similar cases alone; when the service cannot be reached, the elements are
\* those of the dictionary and pattern fallback.
C17_SourceFailureDegrades ==
    (op = "analyze_fault" /\ ~locals.raised) =>
        /\ ret.causes # AnalyzerError.causes
        /\ ret.causes # RecommenderError.causes
        /\ args.failing = EveryStoreQuery =>
              /\ locals.kg_reasoning_result.causes = <<>>
              /\ ret.causes = integrate_causes(KgResult(<<>>), locals.similar_cases)
              /\ FracEq(ret.confidence,
                        calculate_confidence(KgResult(<<>>), locals.similar_cases))
        /\ ServiceUnreachable =>
              /\ locals.fault_elements = FallbackElements(args.user_query)
              /\ ~service_available

C17_Witness ==
    /\ op = "analyze_fault"
    /\ ~locals.raised
    /\ args.failing = EveryStoreQuery
    /\ args.reply = R_timeout
    /\ enable_entity_recognition
    /\ locals.service_available
    /\ locals.fault_elements # <<>>
    /\ locals.similar_cases # <<>>
    /\ ret.causes # <<>>
    /\ FracLt(Frac(0, 1), ret.confidence)

\* C18: extract_fault_elements raises nothing for a text that is a string,
\* whatever the recognition service does (entities, an error status, a
\* timeout, a reply that is no JSON, an entity without a name): it returns a
\* list of elements, possibly empty; when the request to the service fails,
\* the list is what the dictionary and pattern fallback gives for the text
\* and the service is marked unavailable.
C18_ExtractorNeverRaises ==
    (op = "extract_fault_elements" /\ args.text # NoneText) =>
        /\ ~ret.raised
        /\ \A i \in 1..Len(ret.value) :
              /\ ret.value[i].element_type \in Range(FaultTypes)
              /\ ret.value[i].content # <<>>
        /\ (/\ enable_entity_recognition
            /\ locals.service_available
            /\ args.reply.status # "ok") =>
              /\ ret.value = post_process_elements(
                                 merge_elements(<<>>, fallback_rules(args.text)))
              /\ ~service_available

C18_Witness ==
    /\ op = "extract_fault_elements"
    /\ args.text = T_alarm
    /\ args.reply = R_not_json
    /\ enable_entity_recognition
    /\ locals.service_available
    /\ ~service_available
    /\ ~ret.raised
    /\ Len(ret.value) >= 3

\* the extractor returns the empty list when nothing is found
C18_WitnessEmpty ==
    /\ op = "extract_fault_elements"
    /\ args.text = T_unknown
    /\ args.reply = R_error
    /\ ~ret.raised
    /\ ret.value = <<>>

\* the threads that called add_case
Writers == {t \in Threads : op[t] = "add_case"}

\* the index holds one vector for every case of the corpus cs, computed from
\* the text of that case
IndexCovers(rows, cs) ==
    /\ Len(rows) = Len(cs)
    /\ rows = transform(vectorizer, case_texts(cs))

\* C19: a find_similar_cases call that runs while add_case calls run never
\* reads an index that is behind the corpus: at the moment it reads the
\* vectors, there is one vector for every stored case, built from its text.
C19_ReaderSeesCurrentIndex ==
    \A t \in Threads :
        (op[t] = "find_similar_cases" /\ locals[t].pc \in {"select", "done"}
         /\ ret[t] # Returned(<<>>)) =>
            IndexCovers(locals[t].rows, locals[t].cases)

\* a search that has returned after reading the vectors of fewer cases than
\* the corpus held at that moment
C19_Witness ==
    \E t \in Threads :
        /\ op[t] = "find_similar_cases"
        /\ locals[t].pc = "done"
        /\ ret[t] # Returned(<<>>)
        /\ Len(locals[t].rows) < Len(locals[t].cases)

\* C20: when two or more add_case calls that ran concurrently have all
\* returned, the corpus holds the loaded cases and every added case once per
\* call, and the index holds the vectors of exactly that corpus.
C20_WritersSerialized ==
    (Cardinality(Writers) >= 2 /\ \A t \in Threads : locals[t].pc = "done") =>
        /\ Len(cases) = Len(LoadedCases) + Cardinality(Writers)
        /\ SubSeq(cases, 1, Len(LoadedCases)) = LoadedCases
        /\ \A c \in ThreadCases :
              Cardinality({i \in 1..Len(cases) : cases[i] = c})
                  = Cardinality({t \in Writers : args[t].case = c})
        /\ IndexCovers(case_vectors.rows, cases)

\* both calls have returned, every case is stored, and the index is the one
\* built from the corpus before the later append
C20_Witness ==
    /\ Cardinality(Writers) >= 2
    /\ \A t \in Threads : locals[t].pc = "done"
    /\ Len(cases) = Len(LoadedCases) + Cardinality(Writers)
    /\ Len(case_vectors.rows) < Len(cases)

(***************************************************************************)
(* Specification of a new analyzer that learns its first case: the matcher *)
(* is constructed without stored data, add_case is called once, and        *)
(* analyze_fault answers requests before and after it.                     *)
(***************************************************************************)
FirstCases == {K_bearing, K_wear}

FirstQueries == {Q_spindle, Q_alarm}

NextFirstCase ==
    \/ op = "idle" /\ cases = <<>> /\ \E case \in FirstCases : AddCase(case)
    \/ op = "idle" /\ \E user_query \in FirstQueries, fault_elements \in ElementLists,
          web \in WebOutcomes(enable_web_search) :
            AnalyzeFault(user_query, fault_elements, {}, web)
    \/ Done

SpecFirstCase == Init /\ [][NextFirstCase]_vars

\* the words that the text of the request and the text of the case share
SharedTerms(query, case) ==
    Range(tokenize(query_text(query))) \cap Range(tokenize(case_text(case)))

\* a request answered by an analyzer whose corpus is one case that shares
\* words with the request
AnsweredFromOneCase ==
    /\ op = "analyze_fault"
    /\ ~locals.raised
    /\ Len(cases) = 1
    /\ SharedTerms(args.user_query, cases[1]) # {}

\* C21: with a corpus of exactly one case (spindle vibration, bearing wear,
\* solution: replace the bearing) added to an empty matcher, a diagnosis of
\* a text that shares terms with the case returns the case among the
\* similar cases with similarity above 0.3, and the causes include the
\* cause inferred from the solution of the case.
C21_SingleCaseMatched ==
    AnsweredFromOneCase =>
        /\ \E i \in 1..Len(ret.similar_cases) :
              /\ ret.similar_cases[i].case_id = cases[1].case_id
              /\ ret.similar_cases[i].similarity > 30
        /\ \A c \in Range(infer_causes_from_solution(cases[1].solution)) :
              c \in Range(ret.causes)

\* the request was answered without any similar case although the corpus
\* holds a case with the words of the request
C21_Witness ==
    /\ AnsweredFromOneCase
    /\ ret.similar_cases = <<>>
    /\ case_vectors = NoVectors
    /\ "bearing_wear" \notin Range(ret.causes)

\* the dictionary cause_scores that _integrate_causes has built from the
\* evidence of the last diagnosis, before it sorts
FusedScores == cause_scores(KgResult(GivenCauses), GivenCases)

\* C22: the fused score of a cause text is the sum of the decayed
\* confidences of all graph entries that carry the text, each entry counted
\* separately, plus similarity * 0.5 for every similar case whose solution
\* keyword-matches the cause; a cause without any contribution has no score
\* and is not returned.
C22_FusedScoreIsSum ==
    Aggregated =>
        /\ DOMAIN FusedScores = Contributed
        /\ \A c \in Contributed : FusedScores[c] = FusedScore(c)
        /\ Range(ret.causes) \subseteq Contributed

\* a cause carried by two graph entries and implied by a similar case
C22_Witness ==
    /\ Aggregated
    /\ \E c \in Range(ret.causes) :
          /\ Cardinality({i \in 1..Len(GivenCauses) : GivenCauses[i].cause = c}) >= 2
          /\ \E i \in 1..Len(GivenCases) :
                /\ c \in Range(infer_causes_from_solution(GivenCases[i].solution))
                /\ GivenCases[i].similarity > 0
          /\ FusedScores[c] = FusedScore(c)
          /\ FusedScores[c] > 0

\* the rows that the store holds for the phenomenon of a cause entry
StoreRows(entry) == Range(cause_rows(entry.related_phenomenon))

\* the groups of the elements of the last reasoning chain
GroupOf(type) == contents_of(args.fault_elements, type)

\* C23: a cause found through Location -> Phenomenon -> Cause is emitted
\* with the store confidence times 0.7; a cause found through AlarmCode ->
\* Phenomenon -> Cause or by the direct Phenomenon -> Cause lookup is emitted
\* with the store confidence unchanged; a group without elements sends no
\* query and contributes no entry.
C23_GroupDecay ==
    op = "execute_reasoning_chain" =>
        /\ Len(locals.location_causes) = Len(locals.store_location)
        /\ \A k \in 1..Len(locals.location_causes) :
              /\ locals.store_location[k] \in StoreRows(locals.store_location[k])
              /\ 10 * locals.location_causes[k].confidence
                 = 7 * locals.store_location[k].confidence
              /\ locals.location_causes[k].cause = locals.store_location[k].cause
        /\ \A k \in 1..Len(locals.alarm_causes) :
              locals.alarm_causes[k] \in StoreRows(locals.alarm_causes[k])
        /\ \A k \in 1..Len(locals.direct_causes) :
              locals.direct_causes[k] \in StoreRows(locals.direct_causes[k])
        /\ Len(ret.causes) = Len(locals.direct_causes) + Len(locals.indirect_causes)
                             + Len(locals.location_causes) + Len(locals.alarm_causes)
        /\ GroupOf("phenomenon") = <<>> =>
              locals.queries.phenomenon = <<>> /\ locals.direct_causes = <<>>
        /\ GroupOf("operation") = <<>> =>
              /\ locals.queries.operation = <<>>
              /\ locals.indirect_causes = <<>>
              /\ locals.operation_phenomena = <<>>
        /\ GroupOf("location") = <<>> =>
              /\ locals.queries.location = <<>>
              /\ locals.location_causes = <<>>
              /\ locals.location_phenomena = <<>>
        /\ GroupOf("alarm") = <<>> =>
              /\ locals.queries.alarm = <<>>
              /\ locals.alarm_causes = <<>>
              /\ locals.alarm_phenomena = <<>>

\* a chain over a location and an alarm and no phenomenon: the location
\* causes carry 0.7 and 0.56, the alarm causes 1.0
C23_Witness ==
    /\ op = "execute_reasoning_chain"
    /\ GroupOf("phenomenon") = <<>>
    /\ \E k \in 1..Len(locals.location_causes) : locals.location_causes[k].confidence = 70
    /\ \E k \in 1..Len(locals.location_causes) : locals.location_causes[k].confidence = 56
    /\ \E k \in 1..Len(locals.alarm_causes) : locals.alarm_causes[k].confidence = One
    /\ locals.queries.location # <<>>
    /\ locals.queries.phenomenon = <<>>

\* the rows of every argument whose own query the store answers
AnsweredRows(kind, items, rows(_)) ==
    Concat([i \in 1..Len(items) |->
        IF <<kind, items[i]>> \in args.failing THEN <<>> ELSE rows(items[i])])

\* C24: a failing store query loses the results of that query alone: the
\* rows of the other queries of the same lookup list, before and after the
\* failing one, and the results of the other groups are returned, and
\* execute_reasoning_chain returns.
C24_FailureIsolatedPerQuery ==
    op = "execute_reasoning_chain" =>
        /\ locals.direct_causes
           = AnsweredRows("causes", GroupOf("phenomenon"), cause_rows)
        /\ locals.operation_phenomena
           = AnsweredRows("operations", GroupOf("operation"),
                          LAMBDA o : phenomenon_rows(CX, o, 90))
        /\ locals.location_phenomena
           = AnsweredRows("locations", GroupOf("location"),
                          LAMBDA l : phenomenon_rows(XB, l, 80))

\* the query of the first phenomenon failed and the rows of the second,
\* whose query would have been answered, are missing from the result
C24_Witness ==
    /\ op = "execute_reasoning_chain"
    /\ Len(GroupOf("phenomenon")) = 2
    /\ <<"causes", GroupOf("phenomenon")[1]>> \in args.failing
    /\ <<"causes", GroupOf("phenomenon")[2]>> \notin args.failing
    /\ cause_rows(GroupOf("phenomenon")[2]) # <<>>
    /\ locals.direct_causes = <<>>
    /\ Len(locals.queries.phenomenon) = 1

(***************************************************************************)
(* Specification of the entity recognizer alone: extract_entities is       *)
(* called with texts while the recognition service replies, fails or times *)
(* out, and refresh_service_status probes the service in between.          *)
(***************************************************************************)
\* the local variables of extract_entities before the post-processing:
\* whether the service was called and failed, the elements it gave, the
\* elements of the rule scanner when it ran, and the merged list
entities_locals(text, reply, available) ==
    LET ner == IF available THEN extract_with_ner_service(text, reply)
               ELSE Returned(<<>>)
        still == available /\ ~ner.raised
        elements == IF ner.raised THEN <<>> ELSE ner.value
        supplement == ~still \/ Len(elements) < MinNerElements
        scanned == supplement /\ ~rules_raise(text)
        fallback_elements == IF scanned THEN fallback_rules(text) ELSE <<>>
    IN [contacted |-> available,
        ner_raised |-> ner.raised,
        ner_elements |-> elements,
        supplement |-> supplement,
        fallback_elements |-> fallback_elements,
        elements |-> IF scanned /\ ~lower_raises(elements)
                     THEN merge_elements(elements, fallback_elements)
                     ELSE elements,
        before |-> available]

\* a probe that takes any answer of the service for a success
test_service_any_answer(probe) == probe # 0

\* _test_service: the probe succeeds when the service answers with status
\* 200; a request that raises gives False
test_service(probe) == probe = 200

\* outcomes of the probe: a status code, or 0 for a request that raised
Probes == {0, 200, 500}

Fillers ==
    <<"f1", "f2", "f3", "f4", "f5", "f6", "f7", "f8", "f9", "f10",
      "f11", "f12", "f13", "f14", "f15", "f16", "f17", "f18", "f19", "f20",
      "f21", "f22", "f23", "f24", "f25", "f26", "f27", "f28", "f29", "f30">>

\* a long description: fifteen keywords, each between two other words
T_long ==
    Concat([i \in 1..15 |->
        <<Fillers[2 * i - 1],
          IF i <= 5 THEN "spindle" ELSE IF i <= 10 THEN "vibration" ELSE "tool_change",
          Fillers[2 * i]>>])

T_bearing == <<"bearing">>

RecognizerTexts == Texts \cup {T_long, T_bearing}

\* sixteen entities with different names
R_many ==
    Reply("ok", [i \in 1..16 |-> Entity(<<Fillers[i]>>, "COMPONENT", 3 * (i - 1))])

\* two entities at the end of the long description
R_two ==
    Reply("ok", <<Entity(<<"servo">>, "COMPONENT", 50),
                  Entity(<<"overheat">>, "FAULT_STATE", 51)>>)

\* one name recognised as a component and as a fault state
R_pairs ==
    Reply("ok", <<Entity(<<"spindle">>, "COMPONENT", 0),
                  Entity(<<"Spindle">>, "FAULT_STATE", 0),
                  Entity(<<"vibration">>, "FAULT_STATE", 1)>>)

RecognizerReplies == Replies \cup {R_many, R_two, R_pairs}

InitRecognizer ==
    /\ cases = <<>>
    /\ vectorizer = NoVectorizer
    /\ case_vectors = NoVectors
    /\ enable_web_search = FALSE
    /\ enable_entity_recognition = TRUE
    /\ service_available \in BOOLEAN
    /\ op = "idle"
    /\ args = Idle
    /\ ret = Idle
    /\ locals = Idle

ExtractEntities(text, reply) ==
    /\ op = "idle"
    /\ \E extracted \in {extract_entities(text, reply, service_available)} :
          /\ ret' = [raised |-> extracted.raised, value |-> extracted.value]
          /\ service_available' = extracted.service_available
    /\ \E l \in {entities_locals(text, reply, service_available)} : locals' = l
    /\ op' = "extract_entities"
    /\ args' = [text |-> text, reply |-> reply]
    /\ UNCHANGED <<cases, vectorizer, case_vectors, enable_web_search,
                 enable_entity_recognition>>

RefreshServiceStatus(probe) ==
    /\ op = "idle"
    /\ service_available' = test_service(probe)
    /\ op' = "refresh_service_status"
    /\ args' = [probe |-> probe]
    /\ ret' = [value |-> test_service(probe)]
    /\ locals' = [before |-> service_available]
    /\ UNCHANGED <<cases, vectorizer, case_vectors, enable_web_search,
                 enable_entity_recognition>>

NextRecognizer ==
    \/ op = "idle" /\ \E text \in RecognizerTexts, reply \in RecognizerReplies :
            ExtractEntities(text, reply)
    \/ op = "idle" /\ \E probe \in Probes : RefreshServiceStatus(probe)
    \/ Done

SpecRecognizer == InitRecognizer /\ [][NextRecognizer]_vars

\* the key of the deduplication
PairOf(x) == <<lower_content(x.content), x.element_type>>

\* an extract_entities call that returned a list
EntitiesReturned == op = "extract_entities" /\ ~ret.raised

\* the merged elements that are long enough: what the post-processing may
\* return
Candidates == SelectSeq(locals.elements, LAMBDA x : long_enough(x.content))

\* the first candidate of every pair that the returned list does not hold
RemovedByCap ==
    {i \in 1..Len(Candidates) :
        /\ \A j \in 1..Len(ret.value) : PairOf(ret.value[j]) # PairOf(Candidates[i])
        /\ \A h \in 1..(i - 1) : PairOf(Candidates[h]) # PairOf(Candidates[i])}

C25_WitnessTypes ==
    /\ EntitiesReturned
    /\ \E i, j \in 1..Len(ret.value) :
          /\ lower_content(ret.value[i].content) = lower_content(ret.value[j].content)
          /\ ret.value[i].element_type # ret.value[j].element_type

\* the elements of the reply of the service in the last call, none when the
\* service was not called or the call failed
ExternalElements ==
    IF locals.contacted /\ ~locals.ner_raised
    THEN extract_with_ner_service(args.text, args.reply).value
    ELSE <<>>

\* the condition under which the claim lets the rule scanner run
FallbackDue ==
    \/ ~locals.before
    \/ locals.ner_raised
    \/ Len(ExternalElements) < 3

IsExternal(x) == \E i \in 1..Len(ExternalElements) : ExternalElements[i] = x

\* the elements the rule scanner found in the last call
IsScanned(x) ==
    \E i \in 1..Len(locals.fallback_elements) : locals.fallback_elements[i] = x

Collides(x) ==
    \E i \in 1..Len(ExternalElements) :
        lower_content(ExternalElements[i].content) = lower_content(x.content)

C26_WitnessExternalOnly ==
    /\ EntitiesReturned
    /\ ~FallbackDue
    /\ fallback_rules(args.text) # <<>>
    /\ ret.value # <<>>

\* both evidence sources are present and as strong as they can be
StrongEvidence ==
    /\ GivenCauses # <<>>
    /\ GivenCases # <<>>
    /\ \A i \in 1..Len(GivenCauses) : GivenCauses[i].confidence = One
    /\ \A i \in 1..Len(GivenCases) : GivenCases[i].similarity = One

\* C27: the fallback search is performed exactly when web search is enabled
\* and the confidence is below 0.7; a diagnosis whose graph confidences and
\* case similarities are all 1.0 has a confidence of 0.7 or more and holds
\* no externally sourced solution, as does every diagnosis with web search
\* disabled; every externally sourced solution is one of the tagged search
\* results, and a failing search leaves the other fields as computed.
C27_FallbackSearchOnlyBelowThreshold ==
    (op = "generate_recommendations" /\ ~locals.raised) =>
        /\ External(ret.solutions) # {} =>
              enable_web_search /\ FracLt(ret.confidence, Frac(7, 10))
        /\ StrongEvidence =>
              /\ FracLe(Frac(7, 10), ret.confidence)
              /\ External(ret.solutions) = {}
        /\ ret.causes = integrate_causes(args.kg_result, args.similar_cases)
        /\ ret.similar_cases = args.similar_cases

\* web search is enabled, every graph confidence and case similarity is
\* 1.0, the confidence is 0.5 and the solutions end with search results
C27_Witness ==
    /\ op = "generate_recommendations"
    /\ ~locals.raised
    /\ enable_web_search
    /\ StrongEvidence
    /\ FracEq(ret.confidence, Frac(1, 2))
    /\ External(ret.solutions) # {}

(***************************************************************************)
(* Specification of the recommender given the graph entries in any order:  *)
(* the entries of the element groups arrive in the order the lookups       *)
(* complete, and entries of different causes can carry equal confidences.  *)
(***************************************************************************)
MergeCauseInputs ==
    {KgEntry("tool_chain_jam", One), KgEntry("motor_fault", One),
     KgEntry("bearing_wear", 80)}

NextMerge ==
    \/ op = "idle" /\ \E causes \in SeqsUpTo(MergeCauseInputs, MaxKgCauses),
          similar_cases \in SeqsUpTo(SimilarInputs, MaxSimilar) :
            GenerateRecommendations(KgResult(causes), similar_cases, Q_spindle, <<>>, <<>>)
    \/ Done

SpecMerge == InitService /\ [][NextMerge]_vars

\* the sequence with the entries at i and j exchanged
Swap(s, i, j) == [s EXCEPT ![i] = s[j], ![j] = s[i]]

\* C28: the causes do not depend on the order in which the graph entries
\* and the similar cases are supplied: exchanging any two entries, and so
\* any permutation, gives the identical list, causes of equal fused score
\* being ordered by their text.
C28_MergeOrderIndependent ==
    (op = "generate_recommendations" /\ ~locals.raised) =>
        /\ \A i, j \in 1..Len(args.kg_result.causes) :
              integrate_causes(KgResult(Swap(args.kg_result.causes, i, j)),
                               args.similar_cases) = ret.causes
        /\ \A i, j \in 1..Len(args.similar_cases) :
              integrate_causes(args.kg_result, Swap(args.similar_cases, i, j))
              = ret.causes

\* two causes of equal fused score are returned in the order their entries
\* were supplied, and in the other order when the entries are exchanged
C28_Witness ==
    /\ op = "generate_recommendations"
    /\ ~locals.raised
    /\ Len(args.kg_result.causes) = 2
    /\ Len(ret.causes) >= 2
    /\ FusedScore(ret.causes[1]) = FusedScore(ret.causes[2])
    /\ LET swapped == integrate_causes(KgResult(Swap(args.kg_result.causes, 1, 2)),
                                       args.similar_cases)
       IN /\ swapped[1] = ret.causes[2]
          /\ swapped[2] = ret.causes[1]

\* what extract_entities returns from the rule scanner alone
ScannedOnly(text) == post_process_elements(merge_elements(<<>>, fallback_rules(text)))

\* what one step may do to the flag and with the service
StickyStep ==
    /\ (op = "idle" /\ op' = "extract_entities") =>
          /\ (service_available /\ args'.reply.status # "ok") => ~service_available'
          /\ ~service_available =>
                /\ ~service_available'
                /\ ~ret'.raised => ret'.value = ScannedOnly(args'.text)
          /\ (service_available /\ args'.reply.status = "ok") => service_available'
    /\ (~service_available /\ service_available') =>
          (op' = "refresh_service_status" /\ args'.probe = 200)
    /\ (op = "idle" /\ op' = "refresh_service_status") =>
          (service_available' <=> args'.probe = 200)

\* C29: a service call that fails inside extract_entities sets
\* service_available to false; while the flag is false an extract_entities
\* call does not use the service, whatever it would reply, and returns the
\* elements of the rule scanner; the flag becomes true again only by a
\* refresh_service_status whose probe succeeds; an extraction whose service
\* call did not fail leaves the flag as it was.
C29_AvailabilitySticky == [][StickyStep]_vars

\* the flag is false, the service would have replied with entities, and the
\* call returned the scanned elements and left the flag false
C29_Witness ==
    /\ op = "extract_entities"
    /\ ~locals.before
    /\ args.reply = R_pairs
    /\ ~ret.raised
    /\ ret.value # <<>>
    /\ \A j \in 1..Len(ret.value) : ret.value[j].confidence < 90
    /\ ~service_available

\* a call of the service failed and the flag is now false
C29_WitnessFailure ==
    /\ op = "extract_entities"
    /\ locals.before
    /\ locals.ner_raised
    /\ ~service_available

(***************************************************************************)
(* Specification of the persistence of the matcher: cases are added to a   *)
(* new matcher, save() writes the two pickle files, and a new matcher is   *)
(* constructed from the same paths.  Both paths are configured; a file is  *)
(* a sequence that is empty while the file does not exist, and pickle      *)
(* gives back a copy of the value it was given.                            *)
(***************************************************************************)
\* _save_data: the case file is always written, the vectorizer file only
\* when there is a vectorizer
save_data(cs, vz, cv) ==
    [case_database |-> <<cs>>,
     vectorizer_file |-> IF vz.state # "none"
                         THEN <<[vectorizer |-> vz, case_vectors |-> cv]>>
                         ELSE <<>>]

\* __init__ and _load_data: the matcher a constructor leaves; nothing is
\* rebuilt after the files were read
load_data(files) ==
    [cases |-> IF files.case_database # <<>> THEN files.case_database[1] ELSE <<>>,
     vectorizer |-> IF files.vectorizer_file # <<>>
                    THEN files.vectorizer_file[1].vectorizer ELSE NoVectorizer,
     case_vectors |-> IF files.vectorizer_file # <<>>
                      THEN files.vectorizer_file[1].case_vectors ELSE NoVectors]

Save ==
    /\ op = "idle"
    /\ op' = "save"
    /\ args' = Idle
    /\ ret' = Idle
    /\ locals' = [files |-> save_data(cases, vectorizer, case_vectors)]
    /\ UNCHANGED <<cases, vectorizer, case_vectors, enable_web_search,
                 enable_entity_recognition, service_available>>

\* a new matcher is constructed from the paths that save() has written
Construct ==
    /\ op = "save"
    /\ op' = "__init__"
    /\ args' = Idle
    /\ ret' = Idle
    /\ locals' = [files |-> locals.files,
                  saved |-> [cases |-> cases, vectorizer |-> vectorizer,
                             case_vectors |-> case_vectors]]
    /\ \E loaded \in {load_data(locals.files)} :
          /\ cases' = loaded.cases
          /\ vectorizer' = loaded.vectorizer
          /\ case_vectors' = loaded.case_vectors
    /\ UNCHANGED <<enable_web_search, enable_entity_recognition, service_available>>

NextPersistence ==
    \/ op = "idle" /\ \E case \in CaseInputs : AddCase(case)
    \/ op = "idle" /\ \E batch \in SeqsUpTo(CaseInputs, MaxBatch) : AddCasesBatch(batch)
    \/ Save
    \/ Construct
    \/ Done

SpecPersistence == Init /\ [][NextPersistence]_vars

\* the index holds one vector for every case of the corpus
OneVectorPerCase ==
    cases # <<>> => (case_vectors.built /\ Len(case_vectors.rows) = Len(cases))

\* C30: after add_case calls and save(), a new matcher constructed from the
\* same paths holds the same corpus and an index with one vector per case,
\* and find_similar_cases answers as it did before the save; no matcher is
\* left with a corpus that is not empty and an index that is missing or has
\* another number of rows.
C30_PersistenceRoundTrip ==
    /\ op = "__init__" =>
          /\ cases = locals.saved.cases
          /\ \A query \in {Q_spindle, Q_alarm} :
                find_similar_cases(cases, vectorizer, case_vectors, query, MaxTopK, 0)
                = find_similar_cases(locals.saved.cases, locals.saved.vectorizer,
                                     locals.saved.case_vectors, query, MaxTopK, 0)
    /\ OneVectorPerCase

\* a matcher constructed from the files of a matcher that add_case calls
\* had filled: the cases are there and the index is missing
C30_Witness ==
    /\ op = "__init__"
    /\ Len(cases) >= 2
    /\ cases = locals.saved.cases
    /\ ~case_vectors.built
    /\ vectorizer.state = "unfitted"

============================================================================
